---- MODULE Spec2Model ----
(***************************************************************************)
(* Model of src/py/文本/expr_match.py: the boolean keyword-expression      *)
(* matching engine (scanner, recursive-descent parser, evaluator,          *)
(* fast-path dispatcher, versioned LRU caches and their invalidation).     *)
(*                                                                         *)
(* Python strings are modelled as sequences of one-character strings, so   *)
(* that scanning, slicing and parsing are computed position by position.   *)
(* A dict is a function whose domain is its key set.                       *)
(***************************************************************************)
EXTENDS Integers, Sequences, FiniteSets, TLC

VARIABLES
    expr,               \* the rule of the last expr_match / parser call
    value,              \* the text of the last expr_match / scanner call
    keywords,           \* the keyword set of the last scanner call
    result,             \* what the last expr_match call returned
    simple_out,         \* what the last find_keywords_simple call returned
    regex_out,          \* what the last find_keywords_regex call returned
    op,                 \* the operation that completed last
    _cache_version,     \* the module global _cache_version
    simple_cache,       \* lru_cache of _find_keywords_simple_cached, LRU entry first
    regex_cache,        \* lru_cache of _find_keywords_regex_cached
    expression_cache,   \* lru_cache of _complex_expression_cached
    before,             \* get_cache_info() as it was when the last invalidate_cache began
    earlier,            \* an earlier expr_match call of this generation, kept for comparison
    _cache_lock,        \* the thread holding the module's _cache_lock, 0 when free
    pc,                 \* where each thread is in the function it runs
    local,              \* each thread's local variables
    finished,           \* how many invalidate_cache calls have returned
    tree,               \* the operand tree the rule was written from (NoTree if none)
    maxsize,            \* the maxsize each lru_cache decorator was given
    http,               \* the HttpClient.request call in progress, or the last one made
    ahttp,              \* the AsyncHttpClient.request call in progress, or the last one
    factory             \* RedisPoolFactory: its class attributes, the pools it has
                        \* made and the threads calling its methods

inputs == <<expr, value, keywords>>
outputs == <<result, simple_out, regex_out>>
caches == <<simple_cache, regex_cache, expression_cache>>
threads == <<_cache_lock, pc, local, finished>>
calls == <<expr, value, keywords, result, simple_out, regex_out, op, before, earlier,
           tree>>
vars == <<expr, value, keywords, result, simple_out, regex_out, op, _cache_version,
          simple_cache, regex_cache, expression_cache, before, earlier,
          _cache_lock, pc, local, finished, tree, maxsize, http, ahttp, factory>>

\* What the operations of the matching engine never touch
apart == <<maxsize, http, ahttp, factory>>
\* What HttpClient.request never touches: the variables of the matching engine,
\* the calls of the asynchronous client and the pool factory
engine == <<expr, value, keywords, result, simple_out, regex_out, op, _cache_version,
            simple_cache, regex_cache, expression_cache, before, earlier,
            _cache_lock, pc, local, finished, tree, maxsize, ahttp, factory>>
\* What AsyncHttpClient.request never touches
besides == <<expr, value, keywords, result, simple_out, regex_out, op, _cache_version,
             simple_cache, regex_cache, expression_cache, before, earlier,
             _cache_lock, pc, local, finished, tree, maxsize, http, factory>>
\* What RedisPoolFactory never touches
rest == <<expr, value, keywords, result, simple_out, regex_out, op, _cache_version,
          simple_cache, regex_cache, expression_cache, before, earlier,
          _cache_lock, pc, local, finished, tree, maxsize, http, ahttp>>

(***************************************************************************)
(* Bounds of the model.                                                    *)
(***************************************************************************)
MaxRuleLen == 4
MaxTextLen == 2
MaxKeywordLen == 2      \* longest keyword handed to the scanners directly
MaxKeywords == 2        \* largest keyword set handed to the scanners directly
MaxVersion == 2         \* invalidate_cache is not called beyond this generation
NumThreads == 2         \* threads calling into the module concurrently
MaxItems == 2           \* most operands of the outermost AND / OR of a generated rule

(***************************************************************************)
(* Characters.                                                             *)
(***************************************************************************)
OpChars == {"(", ")", "+", "|"}
KwChars == {"a", "b", "A"}
RuleChars == KwChars \cup OpChars
TextChars == {"a", "b", "A", " "}

\* str.lower() on one character (expr_match.py:126, 292, 307, 347)
LowerChar(c) ==
    CASE c = "A" -> "a"
      [] c = "B" -> "b"
      [] c = "C" -> "c"
      [] OTHER -> c

\* str.lower()
Lower(s) == [i \in 1..Len(s) |-> LowerChar(s[i])]

\* re.sub(r'\s+', '', expr) (expr_match.py:286) and expr.replace(' ', '') (:213)
IsSpace(c) == c \in {" ", "\t", "\n"}
StripWhitespace(s) == SelectSeq(s, LAMBDA c : ~IsSpace(c))
StripBlanks(s) == SelectSeq(s, LAMBDA c : c # " ")

\* All strings over an alphabet up to a length.
StringsUpTo(chars, n) == UNION {[1..k -> chars] : k \in 0..n}

(***************************************************************************)
(* Keyword extraction: set(re.findall(r'[^\(\)\+\|]+', expr)), the maximal *)
(* runs of non-operator characters.                                        *)
(***************************************************************************)
ExtractKeywords(e) ==
    {SubSeq(e, i, j) : <<i, j>> \in
        {p \in (1..Len(e)) \X (1..Len(e)) :
            /\ p[1] <= p[2]
            /\ \A k \in p[1]..p[2] : e[k] \notin OpChars
            /\ (p[1] = 1 \/ e[p[1] - 1] \in OpChars)
            /\ (p[2] = Len(e) \/ e[p[2] + 1] \in OpChars)}}

(***************************************************************************)
(* The scanners.                                                           *)
(***************************************************************************)
\* text[i:i+len(kw)] == kw
MatchesAt(text, kw, i) ==
    /\ i + Len(kw) - 1 <= Len(text)
    /\ \A k \in 1..Len(kw) : text[i + k - 1] = kw[k]

\* str.count(kw): non-overlapping occurrences, scanning left to right
RECURSIVE CountFrom(_, _, _)
CountFrom(text, kw, i) ==
    IF i + Len(kw) - 1 > Len(text) THEN 0
    ELSE IF MatchesAt(text, kw, i) THEN 1 + CountFrom(text, kw, i + Len(kw))
    ELSE CountFrom(text, kw, i + 1)

\* A plausible slip: every position at which the keyword starts counted, also where
\* two occurrences overlap.
CountOverlapping(text, kw) ==
    Cardinality({i \in 1..Len(text) : MatchesAt(text, kw, i)})

Count(text, kw) == CountFrom(text, kw, 1)

EmptyDict == [k \in {} |-> 0]

\* The elements of a tuple
Elements(t) == {t[n] : n \in 1..Len(t)}

\* A plausible slip: "if count >= 0" keeps the keywords that do not occur.
ScanSimpleKeepsZero(text_lower, keywords_tuple) ==
    [k \in {Lower(kw) : kw \in Elements(keywords_tuple)} |-> Count(text_lower, k)]

\* _find_keywords_simple_cached body: the dict of the keywords with count > 0
ScanSimple(text_lower, keywords_tuple) ==
    [k \in {x \in {Lower(kw) : kw \in Elements(keywords_tuple)} :
                Count(text_lower, x) > 0}
        |-> Count(text_lower, k)]

\* Code point of a character, for sorted()
Ord(c) ==
    CASE c = "\t" -> 9 [] c = "\n" -> 10 [] c = " " -> 32
      [] c = "(" -> 40 [] c = ")" -> 41 [] c = "+" -> 43
      [] c = "A" -> 65 [] c = "B" -> 66 [] c = "C" -> 67
      [] c = "a" -> 97 [] c = "b" -> 98 [] c = "c" -> 99
      [] c = "|" -> 124

\* Python's str ordering: lexicographic by code point, a prefix sorts first
RECURSIVE StrLess(_, _)
StrLess(s, t) ==
    IF Len(t) = 0 THEN FALSE
    ELSE IF Len(s) = 0 THEN TRUE
    ELSE IF Ord(s[1]) # Ord(t[1]) THEN Ord(s[1]) < Ord(t[1])
    ELSE StrLess(Tail(s), Tail(t))

\* tuple(sorted(keywords))
RECURSIVE SortedTuple(_)
SortedTuple(kws) ==
    IF kws = {} THEN <<>>
    ELSE LET m == CHOOSE x \in kws : \A y \in kws \ {x} : StrLess(x, y)
         IN <<m>> \o SortedTuple(kws \ {m})

\* The alternation '(k1)|(k2)|...' tried at position i: the first alternative, in
\* tuple order, that matches there (0 when none does).
FirstAlternative(text, kt, i) ==
    LET hits == {j \in 1..Len(kt) : MatchesAt(text, Lower(kt[j]), i)}
    IN IF hits = {} THEN 0 ELSE CHOOSE j \in hits : \A h \in hits : j <= h

\* re.findall(pattern, text_lower) flattened: the matched strings, left to right,
\* each match consuming its characters
RECURSIVE FindAll(_, _, _)
FindAll(text, kt, i) ==
    IF i > Len(text) THEN <<>>
    ELSE LET j == FirstAlternative(text, kt, i)
         IN IF j = 0 THEN FindAll(text, kt, i + 1)
            ELSE <<Lower(kt[j])>> \o FindAll(text, kt, i + Len(kt[j]))

\* The characters of the strings of a list, one after the other, each as a string
RECURSIVE Characters(_)
Characters(strings) ==
    IF Len(strings) = 0 THEN <<>>
    ELSE [n \in 1..Len(Head(strings)) |-> <<Head(strings)[n]>>]
            \o Characters(Tail(strings))

\* _find_keywords_regex_cached body: dict(Counter(flat_matches)).  With two or more
\* groups findall returns tuples, whose non-empty members are the matched strings;
\* with a single group it returns the matched strings themselves, and the
\* comprehension "for m in group" then iterates over their characters.
ScanRegex(text_lower, keywords_tuple) ==
    IF Len(keywords_tuple) = 0 THEN EmptyDict
    ELSE LET matches == FindAll(text_lower, keywords_tuple, 1)
             flat == IF Len(keywords_tuple) = 1 THEN Characters(matches) ELSE matches
         IN [k \in Elements(flat) |-> Cardinality({n \in 1..Len(flat) : flat[n] = k})]

(***************************************************************************)
(* The recursive-descent parser complex_expression.  A parse function      *)
(* returns the node it built and the parser position after it (self.pos,   *)
(* 1-based here).  A keyword (a Python str) is the node                    *)
(* [op |-> "LIT", word |-> w]; a dict {'op': .., 'items': ..} is the node  *)
(* [op |-> "AND" or "OR", items |-> <<...>>].                              *)
(***************************************************************************)
Literal(w) == [op |-> "LIT", word |-> w]

\* Parser.peek: the current character, None at the end of input
peek(e, pos) == IF pos <= Len(e) THEN e[pos] ELSE "None"

\* Parser.parse_keyword: the longest run not in '()|+' from pos (possibly empty)
parse_keyword(e, pos) ==
    LET stops == {k \in pos..Len(e) : e[k] \in OpChars}
        stop == IF stops = {} THEN Len(e) + 1
                ELSE CHOOSE k \in stops : \A h \in stops : k <= h
    IN [node |-> Literal(SubSeq(e, pos, stop - 1)), pos |-> stop]

RECURSIVE parse_term(_, _)
RECURSIVE parse_and_expr(_, _)
RECURSIVE parse_or_expr(_, _)
RECURSIVE and_loop(_, _, _)
RECURSIVE or_loop(_, _, _)

\* A plausible slip: a group kept as a node of its own around what it encloses.
parse_term_wraps_group(e, pos) ==
    IF peek(e, pos) = "("
    THEN LET r == parse_or_expr(e, pos + 1)
             group == [op |-> "OR", items |-> <<r.node>>]
         IN IF peek(e, r.pos) = ")"
            THEN [node |-> group, pos |-> r.pos + 1]
            ELSE [node |-> group, pos |-> r.pos]
    ELSE parse_keyword(e, pos)

\* Parser.parse_term: '(' expression ')' | keyword; a missing ')' is not an error
parse_term(e, pos) ==
    IF peek(e, pos) = "("
    THEN LET r == parse_or_expr(e, pos + 1)
         IN IF peek(e, r.pos) = ")"
            THEN [node |-> r.node, pos |-> r.pos + 1]
            ELSE r
    ELSE parse_keyword(e, pos)

\* A plausible slip: the operand after '+' parsed as a whole OR expression, which
\* makes OR bind tighter than AND to the right of a '+'.
and_loop_or_operand(e, items, pos) ==
    IF peek(e, pos) = "+"
    THEN LET r == parse_or_expr(e, pos + 1)
         IN and_loop(e, Append(items, r.node), r.pos)
    ELSE [items |-> items, pos |-> pos]

\* the while loop of parse_and_expr
and_loop(e, items, pos) ==
    IF peek(e, pos) = "+"
    THEN LET r == parse_term(e, pos + 1)
         IN and_loop(e, Append(items, r.node), r.pos)
    ELSE [items |-> items, pos |-> pos]

\* Parser.parse_and_expr: term ('+' term)*
parse_and_expr(e, pos) ==
    LET first == parse_term(e, pos)
        l == and_loop(e, <<first.node>>, first.pos)
    IN IF Len(l.items) = 1
       THEN [node |-> l.items[1], pos |-> l.pos]
       ELSE [node |-> [op |-> "AND", items |-> l.items], pos |-> l.pos]

\* the while loop of parse_or_expr
or_loop(e, items, pos) ==
    IF peek(e, pos) = "|"
    THEN LET r == parse_and_expr(e, pos + 1)
         IN or_loop(e, Append(items, r.node), r.pos)
    ELSE [items |-> items, pos |-> pos]

\* Parser.parse_or_expr: and_expr ('|' and_expr)*
parse_or_expr(e, pos) ==
    LET first == parse_and_expr(e, pos)
        l == or_loop(e, <<first.node>>, first.pos)
    IN IF Len(l.items) = 1
       THEN [node |-> l.items[1], pos |-> l.pos]
       ELSE [node |-> [op |-> "OR", items |-> l.items], pos |-> l.pos]

\* complex_expression(expr): Parser(expr).parse()
complex_expression(e) == parse_or_expr(StripBlanks(e), 1).node

(***************************************************************************)
(* The evaluator.                                                          *)
(***************************************************************************)
RECURSIVE _check_match(_, _)

\* A plausible slip: an OR node decided by its first item alone.
_check_match_first_of_or(parsed_result, target_set) ==
    IF parsed_result.op = "LIT"
    THEN /\ parsed_result.word # <<>>
         /\ Lower(parsed_result.word) \in target_set
    ELSE IF Len(parsed_result.items) = 0 THEN FALSE
    ELSE IF parsed_result.op = "OR"
    THEN _check_match(parsed_result.items[1], target_set)
    ELSE IF parsed_result.op = "AND"
    THEN \A n \in 1..Len(parsed_result.items) :
            _check_match(parsed_result.items[n], target_set)
    ELSE FALSE

\* A plausible slip: an AND node content with one of its items.
_check_match_any_for_and(parsed_result, target_set) ==
    IF "t" \in DOMAIN parsed_result
    THEN /\ parsed_result.t = "str"
         /\ parsed_result.s # <<>>
         /\ Lower(parsed_result.s) \in target_set
    ELSE IF parsed_result.op = "LIT"
    THEN /\ parsed_result.word # <<>>
         /\ Lower(parsed_result.word) \in target_set
    ELSE IF Len(parsed_result.items) = 0 THEN FALSE
    ELSE IF parsed_result.op \in {"OR", "AND"}
    THEN \E n \in 1..Len(parsed_result.items) :
            _check_match(parsed_result.items[n], target_set)
    ELSE FALSE

\* The values of the table-driven parser (fields t, s / items, see below) are a
\* str, a list or None: a str is looked up like a keyword, a list is neither str
\* nor dict and falls through to the final "return False", None is rejected by
\* "if not parsed_result".
_check_match(parsed_result, target_set) ==
    IF "t" \in DOMAIN parsed_result
    THEN /\ parsed_result.t = "str"
         /\ parsed_result.s # <<>>
         /\ Lower(parsed_result.s) \in target_set
    ELSE IF parsed_result.op = "LIT"
    THEN \* "if not parsed_result" rejects the empty string
         /\ parsed_result.word # <<>>
         /\ Lower(parsed_result.word) \in target_set
    ELSE IF Len(parsed_result.items) = 0 THEN FALSE
    ELSE IF parsed_result.op = "OR"
    THEN \E n \in 1..Len(parsed_result.items) :
            _check_match(parsed_result.items[n], target_set)
    ELSE IF parsed_result.op = "AND"
    THEN \A n \in 1..Len(parsed_result.items) :
            _check_match(parsed_result.items[n], target_set)
    ELSE FALSE

(***************************************************************************)
(* expr_match.                                                             *)
(***************************************************************************)
SimpleThreshold == 20

NotCalled == [kind |-> "NotCalled"]
False == [kind |-> "False"]
Match(target_list) == [kind |-> "Match", counts |-> target_list]

Contains(e, c) == \E i \in 1..Len(e) : e[i] = c

\* The conditions of lines 305 and 312: which path decides the cleaned rule e
Route(e) ==
    IF Contains(e, "+") /\ ~Contains(e, "|") /\ ~Contains(e, "(") THEN "fast AND"
    ELSE IF Contains(e, "|") /\ ~Contains(e, "+") /\ ~Contains(e, "(") THEN "fast OR"
    ELSE "full"

\* A plausible slip: the AND fast path content with one keyword found.
MatchAfterScanAnyForAnd(e, kws, target_list) ==
    LET target_set == DOMAIN target_list
        keywords_lower == {Lower(k) : k \in kws}
    IN IF target_list = EmptyDict THEN False
       ELSE IF Route(e) \in {"fast AND", "fast OR"}
       THEN IF keywords_lower \cap target_set # {} THEN Match(target_list) ELSE False
       ELSE IF _check_match(complex_expression(e), target_set)
       THEN Match(target_list)
       ELSE False

\* expr_match from "if not target_list" on (lines 300-329): e is the cleaned rule,
\* kws its keywords, target_list what the scanner returned
MatchAfterScan(e, kws, target_list) ==
    LET target_set == DOMAIN target_list
        keywords_lower == {Lower(k) : k \in kws}
    IN IF target_list = EmptyDict THEN False
       ELSE IF Route(e) = "fast AND"
       THEN IF keywords_lower \subseteq target_set THEN Match(target_list) ELSE False
       ELSE IF Route(e) = "fast OR"
       THEN IF keywords_lower \cap target_set # {} THEN Match(target_list) ELSE False
       ELSE IF _check_match(complex_expression(e), target_set)
       THEN Match(target_list)
       ELSE False

\* The scanner expr_match picks for a keyword set (lines 295-298), cache aside
Scan(value_lower, kws) ==
    IF Cardinality(kws) <= SimpleThreshold
    THEN ScanSimple(value_lower, SortedTuple(kws))
    ELSE ScanRegex(value_lower, SortedTuple(kws))

\* expr_match(expr, value) when every scanner lookup misses its cache
expr_match(e0, v) ==
    LET e == StripWhitespace(e0)
        kws == ExtractKeywords(e)
    IN IF kws = {} THEN False
       ELSE MatchAfterScan(e, kws, Scan(Lower(v), kws))

(***************************************************************************)
(* The table-driven parser of _get_parser (ply lex/yacc), which            *)
(* _complex_expression_cached runs.  A token is [type, value]; a parse     *)
(* value is a str, [t |-> "str", s |-> w], or a list,                      *)
(* [t |-> "list", items |-> <<...>>].  The LALR parser accepts exactly     *)
(*     expression : term (AND term)*     term : factor (OR factor)*        *)
(*     factor : LPAREN expression RPAREN | WORD                            *)
(* reducing left to right, and p_error raises SyntaxError otherwise.       *)
(***************************************************************************)
\* lexer: t_LPAREN, t_RPAREN, t_OR, t_AND, t_WORD, t_ignore
RECURSIVE lex(_, _)
lex(e, pos) ==
    IF pos > Len(e) THEN <<>>
    ELSE IF IsSpace(e[pos]) THEN lex(e, pos + 1)
    ELSE IF e[pos] = "(" THEN <<[type |-> "LPAREN", value |-> <<"(">>]>> \o lex(e, pos + 1)
    ELSE IF e[pos] = ")" THEN <<[type |-> "RPAREN", value |-> <<")">>]>> \o lex(e, pos + 1)
    ELSE IF e[pos] = "|" THEN <<[type |-> "OR", value |-> <<"|">>]>> \o lex(e, pos + 1)
    ELSE IF e[pos] = "+" THEN <<[type |-> "AND", value |-> <<"+">>]>> \o lex(e, pos + 1)
    ELSE LET stops == {k \in pos..Len(e) : e[k] \in OpChars \/ IsSpace(e[k])}
             stop == IF stops = {} THEN Len(e) + 1
                     ELSE CHOOSE k \in stops : \A h \in stops : k <= h
         IN <<[type |-> "WORD", value |-> SubSeq(e, pos, stop - 1)]>> \o lex(e, stop)

Str(w) == [t |-> "str", s |-> w]
List(items) == [t |-> "list", items |-> items]
IsList(x) == x.t = "list"

\* p_expression_and: expression : expression AND term
p_expression_and(p1, p3) ==
    IF IsList(p1) /\ Len(p1.items) > 0 /\ IsList(p1.items[1])
    THEN List(Append(p1.items, p3))
    ELSE List(<<p1, p3>>)

\* p_term_or: term : term OR factor
p_term_or(p1, p3) ==
    IF IsList(p1) /\ ~\E n \in 1..Len(p1.items) : IsList(p1.items[n])
    THEN IF ~IsList(p3) THEN List(Append(p1.items, p3)) ELSE List(p1.items \o p3.items)
    ELSE IF ~IsList(p3) THEN List(<<p1, p3>>) ELSE List(<<p1>> \o p3.items)

tokenType(toks, pos) == IF pos <= Len(toks) THEN toks[pos].type ELSE "$end"

SyntaxError == [ok |-> FALSE]

RECURSIVE yacc_expression(_, _)
RECURSIVE yacc_expression_loop(_, _, _)
RECURSIVE yacc_term(_, _)
RECURSIVE yacc_term_loop(_, _, _)
RECURSIVE yacc_factor(_, _)

\* p_factor_group, p_factor_word
yacc_factor(toks, pos) ==
    IF tokenType(toks, pos) = "LPAREN"
    THEN LET r == yacc_expression(toks, pos + 1)
         IN IF r.ok /\ tokenType(toks, r.pos) = "RPAREN"
            THEN [ok |-> TRUE, val |-> r.val, pos |-> r.pos + 1]
            ELSE SyntaxError
    ELSE IF tokenType(toks, pos) = "WORD"
    THEN [ok |-> TRUE, val |-> Str(toks[pos].value), pos |-> pos + 1]
    ELSE SyntaxError

yacc_term_loop(toks, val, pos) ==
    IF tokenType(toks, pos) = "OR"
    THEN LET r == yacc_factor(toks, pos + 1)
         IN IF r.ok THEN yacc_term_loop(toks, p_term_or(val, r.val), r.pos)
            ELSE SyntaxError
    ELSE [ok |-> TRUE, val |-> val, pos |-> pos]

\* p_term_or, p_term_factor
yacc_term(toks, pos) ==
    LET r == yacc_factor(toks, pos)
    IN IF r.ok THEN yacc_term_loop(toks, r.val, r.pos) ELSE SyntaxError

yacc_expression_loop(toks, val, pos) ==
    IF tokenType(toks, pos) = "AND"
    THEN LET r == yacc_term(toks, pos + 1)
         IN IF r.ok THEN yacc_expression_loop(toks, p_expression_and(val, r.val), r.pos)
            ELSE SyntaxError
    ELSE [ok |-> TRUE, val |-> val, pos |-> pos]

\* p_expression_and, p_expression_term
yacc_expression(toks, pos) ==
    LET r == yacc_term(toks, pos)
    IN IF r.ok THEN yacc_expression_loop(toks, r.val, r.pos) ELSE SyntaxError

None == [t |-> "None"]

\* _complex_expression_cached body: parser.parse(expression), None on SyntaxError
ParseCached(expression) ==
    LET toks == lex(expression, 1)
        r == yacc_expression(toks, 1)
    IN IF r.ok /\ r.pos = Len(toks) + 1 THEN r.val ELSE None

(***************************************************************************)
(* The three lru_cache wrappers.  A cache is the sequence of its entries,  *)
(* least recently used first.  The maxsize of each cache is fixed when the *)
(* module is imported; the variable maxsize holds the three of them.  The  *)
(* source gives 2048, 1024 and 512; the specifications that are not about  *)
(* the capacities scale them down so that a handful of calls fills a       *)
(* cache.                                                                  *)
(***************************************************************************)
SimpleCapacity == 2048      \* @lru_cache(maxsize=2048), _find_keywords_simple_cached
RegexCapacity == 1024       \* @lru_cache(maxsize=1024), _find_keywords_regex_cached
ExpressionCapacity == 512   \* @lru_cache(maxsize=512), _complex_expression_cached
Capacities ==
    [simple |-> SimpleCapacity, regex |-> RegexCapacity,
     expression |-> ExpressionCapacity]

SimpleMaxsize == 2
RegexMaxsize == 2
ExpressionMaxsize == 2
ScaledCapacities ==
    [simple |-> SimpleMaxsize, regex |-> RegexMaxsize, expression |-> ExpressionMaxsize]

Entry(key, val) == [key |-> key, val |-> val]

CacheIndex(cache, key) ==
    LET hits == {i \in 1..Len(cache) : cache[i].key = key}
    IN IF hits = {} THEN 0 ELSE CHOOSE i \in hits : TRUE

\* A plausible slip: a full cache drops the entry used last instead of the oldest.
lru_cache_drops_newest(cache, key, computed, size) ==
    LET i == CacheIndex(cache, key)
    IN IF i # 0
       THEN [val |-> cache[i].val,
             cache |-> SubSeq(cache, 1, i - 1) \o SubSeq(cache, i + 1, Len(cache))
                        \o <<cache[i]>>]
       ELSE [val |-> computed,
             cache |-> IF Len(cache) >= size
                       THEN SubSeq(cache, 1, Len(cache) - 1) \o <<Entry(key, computed)>>
                       ELSE Append(cache, Entry(key, computed))]

\* functools.lru_cache: a hit returns the stored value and makes the entry the most
\* recent; a miss stores the computed value and, over maxsize, drops the oldest.
lru_cache(cache, key, computed, size) ==
    LET i == CacheIndex(cache, key)
        grown == Append(cache, Entry(key, computed))
    IN IF i # 0
       THEN [val |-> cache[i].val,
             cache |-> SubSeq(cache, 1, i - 1) \o SubSeq(cache, i + 1, Len(cache))
                        \o <<cache[i]>>]
       ELSE [val |-> computed,
             cache |-> IF Len(grown) > size THEN Tail(grown) ELSE grown]

\* A plausible slip: the keyword tuple left out of the cache key.
ScanKeyWithoutKeywords(text_lower, keywords_tuple, cache_ver) ==
    [text |-> text_lower, keywords |-> <<>>, ver |-> cache_ver]

\* A plausible slip: the generation left out of the cache key.
ScanKeyWithoutVersion(text_lower, keywords_tuple, cache_ver) ==
    [text |-> text_lower, keywords |-> keywords_tuple, ver |-> 0]

\* The arguments of a cached scanner, which are its cache key
ScanKey(text_lower, keywords_tuple, cache_ver) ==
    [text |-> text_lower, keywords |-> keywords_tuple, ver |-> cache_ver]

\* The arguments of _complex_expression_cached
ExpressionKey(expression, cache_ver) == [expression |-> expression, ver |-> cache_ver]

_find_keywords_simple_cached(text_lower, keywords_tuple, cache_ver) ==
    lru_cache(simple_cache, ScanKey(text_lower, keywords_tuple, cache_ver),
              ScanSimple(text_lower, keywords_tuple), maxsize.simple)

_find_keywords_regex_cached(text_lower, keywords_tuple, cache_ver) ==
    lru_cache(regex_cache, ScanKey(text_lower, keywords_tuple, cache_ver),
              ScanRegex(text_lower, keywords_tuple), maxsize.regex)

_complex_expression_cached(expression, cache_ver) ==
    lru_cache(expression_cache, ExpressionKey(expression, cache_ver),
              ParseCached(expression), maxsize.expression)

\* find_keywords_simple(text, keywords), called with no other thread running
find_keywords_simple(text, kws) ==
    _find_keywords_simple_cached(Lower(text), SortedTuple(kws), _cache_version)

\* find_keywords_regex(text, keywords), called with no other thread running
find_keywords_regex(text, kws) ==
    IF kws = {} THEN [val |-> EmptyDict, cache |-> regex_cache]
    ELSE _find_keywords_regex_cached(Lower(text), SortedTuple(kws), _cache_version)

\* get_cache_info(): the version and each cache's currsize
get_cache_info ==
    [version |-> _cache_version,
     simple_cache |-> Len(simple_cache),
     regex_cache |-> Len(regex_cache),
     expression_cache |-> Len(expression_cache)]

Dict(d) == [kind |-> "Dict", counts |-> d]
NoCall == [expr |-> <<>>, value |-> <<>>, result |-> NotCalled, evicted |-> FALSE]

\* The simple-scan cache key of an expr_match call in the current generation
CallKey(e0, v) ==
    ScanKey(Lower(Lower(v)), SortedTuple(ExtractKeywords(StripWhitespace(e0))),
            _cache_version)

\* The kept call, marked once its cache entry is seen to have been evicted
Recheck(kept) ==
    IF kept # NoCall /\ CacheIndex(simple_cache, CallKey(kept.expr, kept.value)) = 0
    THEN [kept EXCEPT !.evicted = TRUE]
    ELSE kept

(***************************************************************************)
(* The operations, each run to completion.  An operation says what it does *)
(* to the module's state and to the record of its own call; what becomes   *)
(* of the records of other calls is for the specification to say.          *)
(***************************************************************************)
\* expr_match(e0, v)
ExprMatch(e0, v) ==
    LET e == StripWhitespace(e0)
        kws == ExtractKeywords(e)
        value_lower == Lower(v)
        simple == find_keywords_simple(value_lower, kws)
        regex == find_keywords_regex(value_lower, kws)
    IN /\ expr' = e0
       /\ value' = v
       /\ op' = "expr_match"
       /\ IF kws = {}
          THEN /\ result' = False
               /\ UNCHANGED <<simple_cache, regex_cache>>
          ELSE IF Cardinality(kws) <= SimpleThreshold
          THEN /\ result' = MatchAfterScan(e, kws, simple.val)
               /\ simple_cache' = simple.cache
               /\ UNCHANGED regex_cache
          ELSE /\ result' = MatchAfterScan(e, kws, regex.val)
               /\ regex_cache' = regex.cache
               /\ UNCHANGED simple_cache
       /\ UNCHANGED <<_cache_version, expression_cache, before, threads, tree, apart>>

\* find_keywords_simple(t, k)
FindKeywordsSimple(t, k) ==
    LET look == find_keywords_simple(t, k)
    IN /\ value' = t
       /\ keywords' = k
       /\ op' = "find_keywords_simple"
       /\ simple_out' = Dict(look.val)
       /\ simple_cache' = look.cache
       /\ UNCHANGED <<_cache_version, regex_cache, expression_cache, before, earlier,
                      threads, tree, apart>>

\* find_keywords_regex(t, k)
FindKeywordsRegex(t, k) ==
    LET look == find_keywords_regex(t, k)
    IN /\ value' = t
       /\ keywords' = k
       /\ op' = "find_keywords_regex"
       /\ regex_out' = Dict(look.val)
       /\ regex_cache' = look.cache
       /\ UNCHANGED <<_cache_version, simple_cache, expression_cache, before, earlier,
                      threads, tree, apart>>

\* _complex_expression_cached(e, _cache_version)
ComplexExpressionCached(e) ==
    /\ expr' = e
    /\ op' = "_complex_expression_cached"
    /\ expression_cache' = _complex_expression_cached(e, _cache_version).cache
    /\ UNCHANGED <<_cache_version, simple_cache, regex_cache, before, earlier, threads,
                   tree, apart>>

\* A plausible slip: one cache_clear() forgotten.
InvalidateCacheKeepsRegex ==
    /\ _cache_version < MaxVersion
    /\ _cache_lock = 0
    /\ before' = get_cache_info
    /\ _cache_version' = _cache_version + 1
    /\ simple_cache' = <<>>
    /\ expression_cache' = <<>>
    /\ op' = "invalidate_cache"
    /\ earlier' = NoCall
    /\ finished' = finished + 1
    /\ UNCHANGED <<regex_cache, _cache_lock, pc, local, tree, apart>>

\* invalidate_cache(), with no other thread running
InvalidateCache ==
    /\ _cache_version < MaxVersion
    /\ _cache_lock = 0
    /\ before' = get_cache_info
    /\ _cache_version' = _cache_version + 1
    /\ simple_cache' = <<>>
    /\ regex_cache' = <<>>
    /\ expression_cache' = <<>>
    /\ op' = "invalidate_cache"
    /\ earlier' = NoCall
    /\ finished' = finished + 1
    /\ UNCHANGED <<_cache_lock, pc, local, tree, apart>>

Threads == 1..NumThreads
NoTree == [op |-> "NONE"]
NoLocals == [text |-> <<>>, keywords |-> <<>>, ver |-> 0]

(***************************************************************************)
(* src/py/网络/http_client.py: HttpClient.request and its retry loop.      *)
(* The variable http is the call: where it is (pc), its arguments          *)
(* max_retries and raise_for_status, the local retries, what each          *)
(* self.client.request attempt produced (log), how often time.sleep was    *)
(* called (sleeps) and how the call ended (outcome, status).               *)
(***************************************************************************)
MaxRetries == 2         \* largest max_retries an HttpClient is built with

\* What one self.client.request(...) can produce: a response with a status code,
\* or, written NoResponse, an httpx.RequestError because no response was received
Statuses == {200, 304, 404, 500, 503}
NoResponse == 0
AttemptOutcomes == Statuses \cup {NoResponse}

\* httpx.Response.is_success
is_success(status) == status >= 200 /\ status <= 299

NoRequest ==
    [pc |-> "idle", max_retries |-> 0, raise_for_status |-> TRUE, retries |-> 0,
     log |-> <<>>, sleeps |-> 0, outcome |-> "none", status |-> 0]

\* request(...) is called: lines 201-218, up to the while loop
HttpRequest(m, r) ==
    /\ http.pc \in {"idle", "done"}
    /\ http' = [NoRequest EXCEPT !.pc = "attempt", !.max_retries = m,
                                 !.raise_for_status = r]
    /\ UNCHANGED engine

\* the call returns response
Returns(h, status) == [h EXCEPT !.pc = "done", !.outcome = "response", !.status = status]
\* the call ends with an exception
Raises(h, exception) == [h EXCEPT !.pc = "done", !.outcome = exception]

\* A plausible slip: the "raise" after the last retry left out, so that the handler
\* sleeps and goes back to the loop condition.
AfterHTTPStatusErrorNoRaise(h, status) ==
    IF status = 304 THEN Returns(h, status)
    ELSE [h EXCEPT !.retries = h.retries + 1, !.pc = "sleep"]

\* the except clause (lines 233-249) for an HTTPStatusError, whose response has status
AfterHTTPStatusError(h, status) ==
    IF status = 304 THEN Returns(h, status)
    ELSE LET counted == [h EXCEPT !.retries = h.retries + 1]
         IN IF counted.retries > counted.max_retries
            THEN Raises(counted, "HTTPStatusError")
            ELSE [counted EXCEPT !.pc = "sleep"]

\* the except clause for an httpx.RequestError: the exception has no attribute
\* response, so evaluating e.response (line 235) raises AttributeError, which
\* leaves the handler and the call
AfterRequestError(h) == Raises(h, "AttributeError")

\* one pass of the while loop (lines 220-249) whose attempt produced a
HttpAttempt(a) ==
    /\ http.pc = "attempt"
    /\ http.retries <= http.max_retries
    /\ LET h == [http EXCEPT !.log = Append(http.log, a)]
       IN http' = IF a = NoResponse THEN AfterRequestError(h)
                  ELSE IF h.raise_for_status /\ ~is_success(a)
                  THEN AfterHTTPStatusError(h, a)
                  ELSE Returns(h, a)
    /\ UNCHANGED engine

\* time.sleep(self.retry_delay) returns (line 249)
HttpSleep ==
    /\ http.pc = "sleep"
    /\ http' = [http EXCEPT !.pc = "attempt", !.sleeps = http.sleeps + 1]
    /\ UNCHANGED engine

\* the loop condition "retries <= self.max_retries" (line 220) is false: the loop is
\* left, the function body ends and the call returns None
HttpLoopExit ==
    /\ http.pc = "attempt"
    /\ http.retries > http.max_retries
    /\ http' = [http EXCEPT !.pc = "done", !.outcome = "returned None"]
    /\ UNCHANGED engine

(***************************************************************************)
(* AsyncHttpClient.request (lines 433-521), the same call on the           *)
(* asynchronous client.  The variable ahttp is that call, with the fields  *)
(* of http.                                                                *)
(***************************************************************************)
\* request(...) is called: lines 472-489, up to the while loop
AsyncRequest(m, r) ==
    /\ ahttp.pc \in {"idle", "done"}
    /\ ahttp' = [NoRequest EXCEPT !.pc = "attempt", !.max_retries = m,
                                  !.raise_for_status = r]
    /\ UNCHANGED besides

\* A plausible slip: the asynchronous client retrying a 304 like any other status.
AsyncAfterHTTPStatusErrorRetries304(h, status) ==
    LET counted == [h EXCEPT !.retries = h.retries + 1]
    IN IF counted.retries > counted.max_retries
       THEN [counted EXCEPT !.pc = "done", !.outcome = "HTTPStatusError"]
       ELSE [counted EXCEPT !.pc = "sleep"]

\* the except clause (lines 505-521) for an HTTPStatusError, whose response has status
AsyncAfterHTTPStatusError(h, status) ==
    IF status = 304
    THEN [h EXCEPT !.pc = "done", !.outcome = "response", !.status = status]
    ELSE LET counted == [h EXCEPT !.retries = h.retries + 1]
         IN IF counted.retries > counted.max_retries
            THEN [counted EXCEPT !.pc = "done", !.outcome = "HTTPStatusError"]
            ELSE [counted EXCEPT !.pc = "sleep"]

\* the except clause for an httpx.RequestError: e.response (line 507) raises
\* AttributeError
AsyncAfterRequestError(h) == [h EXCEPT !.pc = "done", !.outcome = "AttributeError"]

\* one pass of the while loop (lines 492-521) whose awaited attempt produced a
AsyncAttempt(a) ==
    /\ ahttp.pc = "attempt"
    /\ ahttp.retries <= ahttp.max_retries
    /\ LET h == [ahttp EXCEPT !.log = Append(ahttp.log, a)]
       IN ahttp' = IF a = NoResponse THEN AsyncAfterRequestError(h)
                   ELSE IF h.raise_for_status /\ ~is_success(a)
                   THEN AsyncAfterHTTPStatusError(h, a)
                   ELSE [h EXCEPT !.pc = "done", !.outcome = "response", !.status = a]
    /\ UNCHANGED besides

\* await asyncio.sleep(self.retry_delay) returns (line 521)
AsyncSleep ==
    /\ ahttp.pc = "sleep"
    /\ ahttp' = [ahttp EXCEPT !.pc = "attempt", !.sleeps = ahttp.sleeps + 1]
    /\ UNCHANGED besides

\* the loop condition (line 492) is false: the coroutine ends and returns None
AsyncLoopExit ==
    /\ ahttp.pc = "attempt"
    /\ ahttp.retries > ahttp.max_retries
    /\ ahttp' = [ahttp EXCEPT !.pc = "done", !.outcome = "returned None"]
    /\ UNCHANGED besides

(***************************************************************************)
(* src/py/数据库/redispool.py: RedisPoolFactory, called by several         *)
(* threads.  The variable factory holds the class attributes _instances    *)
(* (url -> pool, 0 for a url that is not a key) and _lock (the thread      *)
(* holding it, 0 when free), the pools made so far (pool p was made for    *)
(* the url made[p]), which of them were taken out of _instances (removed)  *)
(* and which had disconnect() called (disconnected), and for every thread  *)
(* where it is (at) and its locals (my): the url argument, the local pool, *)
(* what the last get_instance call returned or raised (ret, err) and the   *)
(* pools that were disconnected when that call began (began).              *)
(***************************************************************************)
MaxPools == 2           \* pools made in a run of the model
Urls == {"redis://a", "redis://b"}

NoPoolLocals == [url |-> "", pool |-> 0, ret |-> 0, err |-> "", began |-> {}]

NoPools ==
    [_instances |-> [u \in Urls |-> 0], _lock |-> 0, made |-> <<>>,
     removed |-> {}, disconnected |-> {},
     at |-> [t \in Threads |-> "idle"], my |-> [t \in Threads |-> NoPoolLocals]]

\* thread t moves to a label
At(f, t, label) == [f EXCEPT !.at[t] = label]

FactoryStep(f) ==
    /\ factory' = f
    /\ UNCHANGED rest

\* get_instance(url) is called
GetInstanceBegin(t, url) ==
    /\ factory.at[t] = "idle"
    /\ FactoryStep([At(factory, t, "get_check") EXCEPT
            !.my[t] = [NoPoolLocals EXCEPT !.url = url, !.began = factory.disconnected]])

\* line 14: if url not in cls._instances, without the lock
GetInstanceCheck(t) ==
    /\ factory.at[t] = "get_check"
    /\ FactoryStep(IF factory._instances[factory.my[t].url] = 0
                   THEN At(factory, t, "get_acquire")
                   ELSE At(factory, t, "get_return"))

\* line 15: with cls._lock (acquire)
GetInstanceAcquire(t) ==
    /\ factory.at[t] = "get_acquire"
    /\ factory._lock = 0
    /\ FactoryStep([At(factory, t, "get_recheck") EXCEPT !._lock = t])

\* line 16: if url not in cls._instances, under the lock
GetInstanceRecheck(t) ==
    /\ factory.at[t] = "get_recheck"
    /\ FactoryStep(IF factory._instances[factory.my[t].url] = 0
                   THEN At(factory, t, "get_create")
                   ELSE At(factory, t, "get_release"))

\* line 18: the pool is made and stored
GetInstanceCreate(t) ==
    /\ factory.at[t] = "get_create"
    /\ Len(factory.made) < MaxPools
    /\ FactoryStep([At(factory, t, "get_release") EXCEPT
            !.made = Append(factory.made, factory.my[t].url),
            !._instances[factory.my[t].url] = Len(factory.made) + 1])

\* lines 19-20: from_url raised; RuntimeError leaves the with block and the call
GetInstanceCreateFails(t) ==
    /\ factory.at[t] = "get_create"
    /\ FactoryStep([At(factory, t, "idle") EXCEPT
            !._lock = 0, !.my[t].err = "RuntimeError"])

\* the end of the with block: the lock is released
GetInstanceRelease(t) ==
    /\ factory.at[t] = "get_release"
    /\ FactoryStep([At(factory, t, "get_return") EXCEPT !._lock = 0])

\* line 21: return cls._instances[url], KeyError if the url is no longer a key
GetInstanceReturn(t) ==
    /\ factory.at[t] = "get_return"
    /\ FactoryStep(IF factory._instances[factory.my[t].url] = 0
                   THEN [At(factory, t, "idle") EXCEPT !.my[t].err = "KeyError"]
                   ELSE [At(factory, t, "idle") EXCEPT
                            !.my[t].ret = factory._instances[factory.my[t].url]])

\* destroy_instance(url) is called
DestroyInstanceBegin(t, url) ==
    /\ factory.at[t] = "idle"
    /\ FactoryStep([At(factory, t, "destroy_acquire") EXCEPT
            !.my[t] = [NoPoolLocals EXCEPT !.url = url]])

\* line 31: with cls._lock (acquire)
DestroyInstanceAcquire(t) ==
    /\ factory.at[t] = "destroy_acquire"
    /\ factory._lock = 0
    /\ FactoryStep([At(factory, t, "destroy_pop") EXCEPT !._lock = t])

\* lines 32-33: if url in cls._instances: pool = cls._instances.pop(url)
DestroyInstancePop(t) ==
    LET url == factory.my[t].url
    IN /\ factory.at[t] = "destroy_pop"
       /\ FactoryStep(IF factory._instances[url] = 0
                      THEN At(factory, t, "destroy_release")
                      ELSE [At(factory, t, "destroy_disconnect") EXCEPT
                                !.my[t].pool = factory._instances[url],
                                !.removed = factory.removed \cup {factory._instances[url]},
                                !._instances[url] = 0])

\* line 35: pool.disconnect()
DestroyInstanceDisconnect(t) ==
    /\ factory.at[t] = "destroy_disconnect"
    /\ FactoryStep([At(factory, t, "destroy_release") EXCEPT
            !.disconnected = factory.disconnected \cup {factory.my[t].pool}])

\* the end of the with block of destroy_instance
DestroyInstanceRelease(t) ==
    /\ factory.at[t] = "destroy_release"
    /\ FactoryStep([At(factory, t, "idle") EXCEPT !._lock = 0])

\* destroy_all() is called
DestroyAllBegin(t) ==
    /\ factory.at[t] = "idle"
    /\ FactoryStep([At(factory, t, "all_acquire") EXCEPT !.my[t] = NoPoolLocals])

\* line 40: with cls._lock (acquire)
DestroyAllAcquire(t) ==
    /\ factory.at[t] = "all_acquire"
    /\ factory._lock = 0
    /\ FactoryStep([At(factory, t, "all_loop") EXCEPT !._lock = t])

\* The pools of _instances.values() that come after pool p: a dict is iterated in
\* insertion order, and pools are inserted in the order they are made
PoolsAfter(f, p) == {f._instances[u] : u \in Urls} \cap ((p + 1)..Len(f.made))

\* lines 41-42: one pass of the for loop, pool.disconnect(), or its end
DestroyAllDisconnect(t) ==
    LET todo == PoolsAfter(factory, factory.my[t].pool)
        next == CHOOSE p \in todo : \A q \in todo : p <= q
    IN /\ factory.at[t] = "all_loop"
       /\ FactoryStep(IF todo = {} THEN At(factory, t, "all_clear")
                      ELSE [factory EXCEPT
                                !.my[t].pool = next,
                                !.disconnected = factory.disconnected \cup {next}])

\* line 43: cls._instances.clear()
DestroyAllClear(t) ==
    /\ factory.at[t] = "all_clear"
    /\ FactoryStep([At(factory, t, "all_release") EXCEPT
            !.removed = factory.removed \cup ({factory._instances[u] : u \in Urls} \ {0}),
            !._instances = [u \in Urls |-> 0]])

\* the end of the with block of destroy_all
DestroyAllRelease(t) ==
    /\ factory.at[t] = "all_release"
    /\ FactoryStep([At(factory, t, "idle") EXCEPT !._lock = 0])

\* No call has been made and no thread is inside the module
NoCallsYet ==
    /\ result = NotCalled
    /\ simple_out = NotCalled
    /\ regex_out = NotCalled
    /\ op = "none"
    /\ _cache_version = 0
    /\ before = [version |-> 0, simple_cache |-> 0, regex_cache |-> 0,
                 expression_cache |-> 0]
    /\ earlier = NoCall
    /\ _cache_lock = 0
    /\ pc = [t \in Threads |-> "idle"]
    /\ local = [t \in Threads |-> NoLocals]
    /\ finished = 0
    /\ http = NoRequest
    /\ ahttp = NoRequest
    /\ factory = NoPools

\* The state when the module has been imported, with the capacities scaled down
EngineInit ==
    /\ NoCallsYet
    /\ simple_cache = <<>>
    /\ regex_cache = <<>>
    /\ expression_cache = <<>>
    /\ maxsize = ScaledCapacities

(***************************************************************************)
(* Spec: the engine called by one thread, any sequence of operations over  *)
(* a few rules and texts.                                                  *)
(***************************************************************************)
EngineRules == {<<"a">>, <<"a", "+", "b">>}
EngineTexts == {<<"a">>, <<"b">>, <<"A", "b">>}
EngineKeywordSets == {{<<"a">>}}
EngineScanTexts == {<<"A", "b">>}
EngineParseRules == {<<"a", "|", "b">>, <<"a", "+">>}

Init ==
    /\ expr = <<>>
    /\ value = <<>>
    /\ keywords = {}
    /\ tree = NoTree
    /\ EngineInit

ExprMatchCall(e, v) ==
    /\ ExprMatch(e, v)
    /\ earlier' = Recheck(earlier)
    /\ keywords' = {}
    /\ simple_out' = NotCalled
    /\ regex_out' = NotCalled

FindKeywordsSimpleCall(t, k) ==
    /\ FindKeywordsSimple(t, k)
    /\ expr' = <<>>
    /\ result' = NotCalled
    /\ regex_out' = NotCalled

FindKeywordsRegexCall(t, k) ==
    /\ FindKeywordsRegex(t, k)
    /\ expr' = <<>>
    /\ result' = NotCalled
    /\ simple_out' = NotCalled

ComplexExpressionCachedCall(e) ==
    /\ ComplexExpressionCached(e)
    /\ value' = <<>>
    /\ keywords' = {}
    /\ result' = NotCalled
    /\ simple_out' = NotCalled
    /\ regex_out' = NotCalled

InvalidateCacheCall ==
    /\ InvalidateCache
    /\ expr' = <<>>
    /\ value' = <<>>
    /\ keywords' = {}
    /\ result' = NotCalled
    /\ simple_out' = NotCalled
    /\ regex_out' = NotCalled

Next ==
    \/ \E e \in EngineRules, v \in EngineTexts : ExprMatchCall(e, v)
    \/ \E t \in EngineScanTexts, k \in EngineKeywordSets : FindKeywordsSimpleCall(t, k)
    \/ \E t \in EngineScanTexts, k \in EngineKeywordSets : FindKeywordsRegexCall(t, k)
    \/ \E e \in EngineParseRules : ComplexExpressionCachedCall(e)
    \/ InvalidateCacheCall

Spec == Init /\ [][Next]_vars

(***************************************************************************)
(* SpecRepeat: expr_match and invalidate_cache called by one thread, where *)
(* one expr_match call of the current generation is kept in "earlier" to   *)
(* compare later calls with.                                               *)
(***************************************************************************)
\* An expr_match call that is kept for comparison
ExprMatchKept(e, v) ==
    /\ earlier = NoCall
    /\ ExprMatch(e, v)
    /\ earlier' = [expr |-> e, value |-> v, result |-> result', evicted |-> FALSE]
    /\ keywords' = {}
    /\ simple_out' = NotCalled
    /\ regex_out' = NotCalled

NextRepeat ==
    \/ \E e \in EngineRules, v \in EngineTexts : ExprMatchKept(e, v)
    \/ \E e \in EngineRules, v \in EngineTexts : ExprMatchCall(e, v)
    \/ \E t \in EngineScanTexts, k \in EngineKeywordSets : FindKeywordsSimpleCall(t, k)
    \/ InvalidateCacheCall

SpecRepeat == Init /\ [][NextRepeat]_vars

(***************************************************************************)
(* SpecMatch: expr_match applied once to every rule and text within the    *)
(* bounds, from the freshly imported module.                               *)
(***************************************************************************)
Rules == StringsUpTo(RuleChars, MaxRuleLen)
Texts == StringsUpTo(TextChars, MaxTextLen)

InitMatch ==
    /\ expr \in Rules
    /\ value \in Texts
    /\ keywords = {}
    /\ tree = NoTree
    /\ EngineInit

CallExprMatch ==
    /\ result = NotCalled
    /\ ExprMatch(expr, value)
    /\ UNCHANGED <<keywords, simple_out, regex_out, earlier>>

NextMatch == CallExprMatch

SpecMatch == InitMatch /\ [][NextMatch]_vars

(***************************************************************************)
(* SpecScan: both scanners applied once to every keyword set and text      *)
(* within the bounds.                                                      *)
(***************************************************************************)
Keywords == StringsUpTo(KwChars, MaxKeywordLen) \ {<<>>}
KeywordSets == {k \in SUBSET Keywords : Cardinality(k) <= MaxKeywords}

InitScan ==
    /\ expr = <<>>
    /\ value \in Texts
    /\ keywords \in KeywordSets
    /\ tree = NoTree
    /\ EngineInit

CallFindKeywordsSimple ==
    /\ simple_out = NotCalled
    /\ FindKeywordsSimple(value, keywords)
    /\ UNCHANGED <<expr, result, regex_out>>

CallFindKeywordsRegex ==
    /\ regex_out = NotCalled
    /\ FindKeywordsRegex(value, keywords)
    /\ UNCHANGED <<expr, result, simple_out>>

NextScan == CallFindKeywordsSimple \/ CallFindKeywordsRegex

SpecScan == InitScan /\ [][NextScan]_vars

(***************************************************************************)
(* SpecConc: threads calling the scanners and invalidate_cache             *)
(* concurrently.  A scanner call reads _cache_version while it evaluates   *)
(* its arguments (line 175 / 192), then enters the lru_cache wrapper,      *)
(* which looks the key up and, on a miss, runs the function and stores its *)
(* result unless the key has appeared meanwhile.  invalidate_cache runs    *)
(* its statements one by one under _cache_lock.                            *)
(***************************************************************************)
ConcTexts == {<<"a">>}
ConcKeywordSets == {{<<"a">>}}

Goto(t, label) == pc' = [pc EXCEPT ![t] = label]
Return(t) ==
    /\ pc' = [pc EXCEPT ![t] = "idle"]
    /\ local' = [local EXCEPT ![t] = NoLocals]

\* find_keywords_simple lines 171-175, up to the call: the arguments are evaluated,
\* _cache_version among them
SimpleReadVersion(t, text, kws) ==
    /\ pc[t] = "idle"
    /\ local' = [local EXCEPT ![t] = [text |-> Lower(text),
                                      keywords |-> SortedTuple(kws),
                                      ver |-> _cache_version]]
    /\ Goto(t, "simple_lookup")
    /\ UNCHANGED <<calls, apart, _cache_version, caches, _cache_lock, finished>>

\* the lru_cache wrapper of _find_keywords_simple_cached: the lookup
SimpleLookup(t) ==
    LET key == ScanKey(local[t].text, local[t].keywords, local[t].ver)
    IN /\ pc[t] = "simple_lookup"
       /\ IF CacheIndex(simple_cache, key) # 0
          THEN /\ simple_cache' = lru_cache(simple_cache, key, EmptyDict, maxsize.simple).cache
               /\ Return(t)
          ELSE /\ Goto(t, "simple_store")
               /\ UNCHANGED <<simple_cache, local>>
       /\ UNCHANGED <<calls, apart, _cache_version, regex_cache, expression_cache,
                      _cache_lock, finished>>

\* the lru_cache wrapper after a miss: the function has run, its result is stored
SimpleStore(t) ==
    /\ pc[t] = "simple_store"
    /\ simple_cache' = _find_keywords_simple_cached(local[t].text, local[t].keywords,
                                                    local[t].ver).cache
    /\ Return(t)
    /\ UNCHANGED <<calls, apart, _cache_version, regex_cache, expression_cache,
                   _cache_lock, finished>>

\* find_keywords_regex lines 185-192, up to the call
RegexReadVersion(t, text, kws) ==
    /\ pc[t] = "idle"
    /\ kws # {}
    /\ local' = [local EXCEPT ![t] = [text |-> Lower(text),
                                      keywords |-> SortedTuple(kws),
                                      ver |-> _cache_version]]
    /\ Goto(t, "regex_lookup")
    /\ UNCHANGED <<calls, apart, _cache_version, caches, _cache_lock, finished>>

\* the lru_cache wrapper of _find_keywords_regex_cached: the lookup
RegexLookup(t) ==
    LET key == ScanKey(local[t].text, local[t].keywords, local[t].ver)
    IN /\ pc[t] = "regex_lookup"
       /\ IF CacheIndex(regex_cache, key) # 0
          THEN /\ regex_cache' = lru_cache(regex_cache, key, EmptyDict, maxsize.regex).cache
               /\ Return(t)
          ELSE /\ Goto(t, "regex_store")
               /\ UNCHANGED <<regex_cache, local>>
       /\ UNCHANGED <<calls, apart, _cache_version, simple_cache, expression_cache,
                      _cache_lock, finished>>

\* the lru_cache wrapper after a miss: the function has run, its result is stored
RegexStore(t) ==
    /\ pc[t] = "regex_store"
    /\ regex_cache' = _find_keywords_regex_cached(local[t].text, local[t].keywords,
                                                  local[t].ver).cache
    /\ Return(t)
    /\ UNCHANGED <<calls, apart, _cache_version, simple_cache, expression_cache,
                   _cache_lock, finished>>

\* invalidate_cache is called: the thread arrives at "with _cache_lock"
InvalidateBegin(t) ==
    /\ pc[t] = "idle"
    /\ finished + Cardinality({u \in Threads : pc[u] \in
            {"inv_acquire", "inv_load", "inv_store", "inv_clear_simple",
             "inv_clear_regex", "inv_clear_expression", "inv_release"}}) < MaxVersion
    /\ Goto(t, "inv_acquire")
    /\ UNCHANGED <<calls, apart, _cache_version, caches, _cache_lock, local, finished>>

\* A plausible slip: the increment and the clears done without taking the lock.
InvalidateAcquireUnlocked(t) ==
    /\ pc[t] = "inv_acquire"
    /\ Goto(t, "inv_load")
    /\ UNCHANGED <<calls, apart, _cache_version, caches, _cache_lock, local, finished>>

\* line 23: with _cache_lock (acquire)
InvalidateAcquire(t) ==
    /\ pc[t] = "inv_acquire"
    /\ _cache_lock = 0
    /\ _cache_lock' = t
    /\ Goto(t, "inv_load")
    /\ UNCHANGED <<calls, apart, _cache_version, caches, local, finished>>

\* line 24: _cache_version += 1, the load
InvalidateLoad(t) ==
    /\ pc[t] = "inv_load"
    /\ local' = [local EXCEPT ![t].ver = _cache_version]
    /\ Goto(t, "inv_store")
    /\ UNCHANGED <<calls, apart, _cache_version, caches, _cache_lock, finished>>

\* line 24: _cache_version += 1, the store
InvalidateStore(t) ==
    /\ pc[t] = "inv_store"
    /\ _cache_version' = local[t].ver + 1
    /\ Goto(t, "inv_clear_simple")
    /\ UNCHANGED <<calls, apart, caches, _cache_lock, local, finished>>

\* line 25: _find_keywords_simple_cached.cache_clear()
InvalidateClearSimple(t) ==
    /\ pc[t] = "inv_clear_simple"
    /\ simple_cache' = <<>>
    /\ Goto(t, "inv_clear_regex")
    /\ UNCHANGED <<calls, apart, _cache_version, regex_cache, expression_cache, _cache_lock,
                   local, finished>>

\* line 26: _find_keywords_regex_cached.cache_clear()
InvalidateClearRegex(t) ==
    /\ pc[t] = "inv_clear_regex"
    /\ regex_cache' = <<>>
    /\ Goto(t, "inv_clear_expression")
    /\ UNCHANGED <<calls, apart, _cache_version, simple_cache, expression_cache, _cache_lock,
                   local, finished>>

\* line 27: _complex_expression_cached.cache_clear()
InvalidateClearExpression(t) ==
    /\ pc[t] = "inv_clear_expression"
    /\ expression_cache' = <<>>
    /\ Goto(t, "inv_release")
    /\ UNCHANGED <<calls, apart, _cache_version, simple_cache, regex_cache, _cache_lock,
                   local, finished>>

\* line 28 and the end of the with block: the lock is released, the call returns
InvalidateRelease(t) ==
    /\ pc[t] = "inv_release"
    /\ _cache_lock' = 0
    /\ finished' = finished + 1
    /\ Return(t)
    /\ UNCHANGED <<calls, apart, _cache_version, caches>>

NextConc ==
    \E t \in Threads :
        \/ \E text \in ConcTexts, kws \in ConcKeywordSets : SimpleReadVersion(t, text, kws)
        \/ SimpleLookup(t)
        \/ SimpleStore(t)
        \/ \E text \in ConcTexts, kws \in ConcKeywordSets : RegexReadVersion(t, text, kws)
        \/ RegexLookup(t)
        \/ RegexStore(t)
        \/ InvalidateBegin(t)
        \/ InvalidateAcquire(t)
        \/ InvalidateLoad(t)
        \/ InvalidateStore(t)
        \/ InvalidateClearSimple(t)
        \/ InvalidateClearRegex(t)
        \/ InvalidateClearExpression(t)
        \/ InvalidateRelease(t)

SpecConc == Init /\ [][NextConc]_vars

(***************************************************************************)
(* SpecTree: expr_match applied to a rule written from an operand tree and *)
(* to the same rule with operands of its AND / OR nodes exchanged.         *)
(***************************************************************************)
Node(o, items) == [op |-> o, items |-> items]

\* The rule text of an operand tree: operands joined by the node's operator, a
\* compound operand in parentheses unless it is an AND under an OR
RECURSIVE Render(_)
RECURSIVE RenderItems(_, _)
Render(t) ==
    IF t.op = "LIT" THEN t.word ELSE RenderItems(t, 1)

RenderItems(t, n) ==
    LET child == t.items[n]
        bare == child.op = "LIT" \/ (t.op = "OR" /\ child.op = "AND")
        text == IF bare THEN Render(child) ELSE <<"(">> \o Render(child) \o <<")">>
    IN IF n = Len(t.items) THEN text
       ELSE text \o <<IF t.op = "AND" THEN "+" ELSE "|">> \o RenderItems(t, n + 1)

\* The trees obtained from t by exchanging two operands of one of its nodes
RECURSIVE Swaps(_)
Swaps(t) ==
    IF t.op = "LIT" THEN {}
    ELSE {[t EXCEPT !.items = [t.items EXCEPT ![p[1]] = t.items[p[2]],
                                               ![p[2]] = t.items[p[1]]]] :
            p \in {q \in (1..Len(t.items)) \X (1..Len(t.items)) : q[1] < q[2]}}
         \cup UNION {{[t EXCEPT !.items[n] = u] : u \in Swaps(t.items[n])} :
                        n \in 1..Len(t.items)}

TreeOps == {"AND", "OR"}
InnerLeaves == {Literal(<<"a">>), Literal(<<"b">>)}
\* operands of the outermost node: a keyword, an empty operand, or a pair of keywords
Operands ==
    InnerLeaves \cup {Literal(<<>>)}
        \cup {Node(o, <<x, y>>) : o \in TreeOps, x \in InnerLeaves, y \in InnerLeaves}
Trees ==
    {Node(o, items) : o \in TreeOps,
                      items \in UNION {[1..n -> Operands] : n \in 2..MaxItems}}
TreeTexts == {<<"a">>, <<"b">>, <<"a", "b">>}

InitTree ==
    /\ tree \in Trees
    /\ expr = Render(tree)
    /\ value \in TreeTexts
    /\ keywords = {}
    /\ EngineInit

\* expr_match on the rule as first written
CallOriginal ==
    /\ earlier = NoCall
    /\ ExprMatch(expr, value)
    /\ earlier' = [expr |-> expr, value |-> value, result |-> result', evicted |-> FALSE]
    /\ UNCHANGED <<keywords, simple_out, regex_out>>

\* the caller rewrites the rule with two operands of some node exchanged
PermuteOperands ==
    /\ earlier # NoCall
    /\ \E u \in Swaps(tree) :
        /\ tree' = u
        /\ expr' = Render(u)
    /\ result' = NotCalled
    /\ op' = "none"
    /\ UNCHANGED <<value, keywords, simple_out, regex_out, before, earlier,
                   _cache_version, caches, threads, apart>>

\* expr_match on the rewritten rule
CallPermuted ==
    /\ earlier # NoCall
    /\ result = NotCalled
    /\ ExprMatch(expr, value)
    /\ UNCHANGED <<keywords, simple_out, regex_out, earlier>>

NextTree == CallOriginal \/ PermuteOperands \/ CallPermuted

SpecTree == InitTree /\ [][NextTree]_vars

(***************************************************************************)
(* SpecCase: expr_match applied to a rule and a text, and again after the  *)
(* letter case of some characters of the rule or of the text was changed.  *)
(* One rule has more than SimpleThreshold keywords, so that expr_match     *)
(* scans for it with find_keywords_regex.                                  *)
(***************************************************************************)
MaxChanges == 1         \* most characters whose case differs from the first call's

ToggleCase(c) ==
    CASE c = "a" -> "A" [] c = "b" -> "B" [] c = "c" -> "C"
      [] c = "A" -> "a" [] c = "B" -> "b" [] c = "C" -> "c"
      [] OTHER -> c

\* sep.join(words)
RECURSIVE JoinWith(_, _)
JoinWith(words, sep) ==
    IF Len(words) = 1 THEN words[1]
    ELSE words[1] \o <<sep>> \o JoinWith(Tail(words), sep)

\* 21 distinct keywords, of which only the first two occur in the texts below
ManyKeywords ==
    <<<<"a">>, <<"a", "b">>, <<"c">>, <<"c", "c">>,
      <<"c", "a">>, <<"c", "b">>, <<"a", "c">>, <<"b", "c">>,
      <<"c", "c", "c">>, <<"c", "c", "a">>, <<"c", "c", "b">>, <<"c", "a", "c">>,
      <<"c", "b", "c">>, <<"a", "c", "c">>, <<"b", "c", "c">>, <<"c", "a", "a">>,
      <<"c", "a", "b">>, <<"c", "b", "a">>, <<"c", "b", "b">>, <<"a", "c", "a">>,
      <<"b", "c", "b">>>>

CaseRules ==
    {<<"a">>, <<"A", "b">>, <<"a", "+", "B">>, <<"A", "|", "b">>,
     <<"(", "a", "|", "b", ")", "+", "A", "b">>,
     JoinWith(ManyKeywords, "|")}
CaseTexts == {<<"a", "b">>, <<"B", "a">>, <<"A", "b", " ", "a">>}

InitCase ==
    /\ expr \in CaseRules
    /\ value \in CaseTexts
    /\ keywords = {}
    /\ tree = NoTree
    /\ EngineInit

\* The number of positions at which two strings of one length differ
Changed(s, t) == Cardinality({i \in 1..Len(s) : s[i] # t[i]})

\* the caller rewrites one letter of the rule in the other case
ChangeRuleCase ==
    /\ earlier # NoCall
    /\ Changed(expr, earlier.expr) + Changed(value, earlier.value) < MaxChanges
    /\ \E i \in 1..Len(expr) :
        /\ ToggleCase(expr[i]) # expr[i]
        /\ expr' = [expr EXCEPT ![i] = ToggleCase(expr[i])]
    /\ result' = NotCalled
    /\ op' = "none"
    /\ UNCHANGED <<value, keywords, simple_out, regex_out, before, earlier, tree,
                   _cache_version, caches, threads, apart>>

\* the caller rewrites one letter of the text in the other case
ChangeTextCase ==
    /\ earlier # NoCall
    /\ Changed(expr, earlier.expr) + Changed(value, earlier.value) < MaxChanges
    /\ \E i \in 1..Len(value) :
        /\ ToggleCase(value[i]) # value[i]
        /\ value' = [value EXCEPT ![i] = ToggleCase(value[i])]
    /\ result' = NotCalled
    /\ op' = "none"
    /\ UNCHANGED <<expr, keywords, simple_out, regex_out, before, earlier, tree,
                   _cache_version, caches, threads, apart>>

\* expr_match on the rewritten rule and text
CallRecased ==
    /\ earlier # NoCall
    /\ result = NotCalled
    /\ ExprMatch(expr, value)
    /\ UNCHANGED <<keywords, simple_out, regex_out, earlier>>

NextCase == CallOriginal \/ ChangeRuleCase \/ ChangeTextCase \/ CallRecased

SpecCase == InitCase /\ [][NextCase]_vars

(***************************************************************************)
(* SpecPrec: expr_match applied once to every rule k1|k2+k3 and k1+k2|k3   *)
(* over a few keywords and to every text within the bounds.                *)
(***************************************************************************)
PrecKeywords == {<<"a">>, <<"b">>, <<"c">>}
OrThenAnd(x, y, z) == x \o <<"|">> \o y \o <<"+">> \o z
AndThenOr(x, y, z) == x \o <<"+">> \o y \o <<"|">> \o z
PrecRules ==
    {OrThenAnd(x, y, z) : x \in PrecKeywords, y \in PrecKeywords, z \in PrecKeywords}
        \cup {AndThenOr(x, y, z) : x \in PrecKeywords, y \in PrecKeywords,
                                   z \in PrecKeywords}
PrecTexts == StringsUpTo({"a", "b", "c"}, MaxTextLen)

InitPrec ==
    /\ expr \in PrecRules
    /\ value \in PrecTexts
    /\ keywords = {}
    /\ tree = NoTree
    /\ EngineInit

NextPrec == CallExprMatch

SpecPrec == InitPrec /\ [][NextPrec]_vars

(***************************************************************************)
(* SpecFull: the scanners and the cached parser called by one thread with  *)
(* the capacities of the source, from a state in which earlier calls have  *)
(* filled each cache up to one entry below its capacity.                   *)
(***************************************************************************)
\* The n-th string over 'a', 'b' (a, b, aa, ab, ...): the text, or rule, of the
\* n-th earlier call
RECURSIVE Numeral(_)
Numeral(n) ==
    IF n = 0 THEN <<>>
    ELSE Numeral((n - 1) \div 2) \o <<IF n % 2 = 1 THEN "a" ELSE "b">>

FillerKeywords == {<<"c">>}

\* what find_keywords_simple(Numeral(n), {'c'}) left in its cache
SimpleFiller(n) ==
    Entry(ScanKey(Numeral(n), SortedTuple(FillerKeywords), 0),
          ScanSimple(Numeral(n), SortedTuple(FillerKeywords)))

\* what find_keywords_regex(Numeral(n), {'c'}) left in its cache
RegexFiller(n) ==
    Entry(ScanKey(Numeral(n), SortedTuple(FillerKeywords), 0),
          ScanRegex(Numeral(n), SortedTuple(FillerKeywords)))

\* what _complex_expression_cached(Numeral(n), 0) left in its cache
ExpressionFiller(n) == Entry(ExpressionKey(Numeral(n), 0), ParseCached(Numeral(n)))

\* 'a' is the text of the first earlier call, the others are new
FullSimpleTexts == {<<"a">>, <<"A", " ", "b">>, <<"b", " ", "a">>}
FullRegexTexts == {<<"A", " ", "b">>, <<"b", " ", "a">>}
FullRules == {<<"a", "|", "b">>, <<"a", "+">>}

InitFull ==
    /\ expr = <<>>
    /\ value = <<>>
    /\ keywords = {}
    /\ tree = NoTree
    /\ NoCallsYet
    /\ maxsize = Capacities
    /\ simple_cache = [n \in 1..(SimpleCapacity - 1) |-> SimpleFiller(n)]
    /\ regex_cache = [n \in 1..(RegexCapacity - 1) |-> RegexFiller(n)]
    /\ expression_cache = [n \in 1..(ExpressionCapacity - 1) |-> ExpressionFiller(n)]

NextFull ==
    \/ \E t \in FullSimpleTexts : FindKeywordsSimpleCall(t, FillerKeywords)
    \/ \E t \in FullRegexTexts : FindKeywordsRegexCall(t, FillerKeywords)
    \/ \E e \in FullRules : ComplexExpressionCachedCall(e)

SpecFull == InitFull /\ [][NextFull]_vars

(***************************************************************************)
(* SpecHttp: HttpClient.request called with every max_retries within the   *)
(* bound, each attempt producing any status or a transport failure.        *)
(***************************************************************************)
NextHttp ==
    \/ \E m \in 0..MaxRetries, r \in BOOLEAN : HttpRequest(m, r)
    \/ \E a \in AttemptOutcomes : HttpAttempt(a)
    \/ HttpSleep

SpecHttp == Init /\ [][NextHttp]_vars

(***************************************************************************)
(* SpecParse: for every rule within the bounds and a few texts, one call   *)
(* of expr_match, which on its full path runs complex_expression, and one  *)
(* call of _complex_expression_cached, which runs the table-driven parser. *)
(***************************************************************************)
ParseTexts == {<<"a">>, <<"a", "b">>}

InitParse ==
    /\ expr \in Rules
    /\ value \in ParseTexts
    /\ keywords = {}
    /\ tree = NoTree
    /\ EngineInit

CallComplexExpressionCached ==
    /\ expression_cache = <<>>
    /\ ComplexExpressionCached(expr)
    /\ UNCHANGED <<value, keywords, result, simple_out, regex_out>>

NextParse == CallExprMatch \/ CallComplexExpressionCached

SpecParse == InitParse /\ [][NextParse]_vars

(***************************************************************************)
(* SpecCount: find_keywords_simple applied once to every keyword set       *)
(* within the bounds and to every text within the bounds or among a few    *)
(* longer ones in which occurrences of a keyword overlap.                  *)
(***************************************************************************)
OverlapTexts == {<<"a", "a", "a">>, <<"a", "A", "a", "a">>, <<"a", "b", "a", "b", "a">>}

InitCount ==
    /\ expr = <<>>
    /\ value \in Texts \cup OverlapTexts
    /\ keywords \in KeywordSets
    /\ tree = NoTree
    /\ EngineInit

NextCount == CallFindKeywordsSimple

SpecCount == InitCount /\ [][NextCount]_vars

(***************************************************************************)
(* SpecRetry: HttpClient.request called on a client built with any         *)
(* max_retries from -1 (nothing validates the argument) up to the bound.   *)
(* A call that has begun keeps running: an attempt ends, with a response   *)
(* or an error, and time.sleep returns.                                    *)
(***************************************************************************)
HttpStep ==
    \/ \E a \in AttemptOutcomes : HttpAttempt(a)
    \/ HttpSleep
    \/ HttpLoopExit

NextRetry ==
    \/ \E m \in (-1)..MaxRetries, r \in BOOLEAN : HttpRequest(m, r)
    \/ \E a \in AttemptOutcomes : HttpAttempt(a)
    \/ HttpSleep
    \/ HttpLoopExit

SpecRetry == Init /\ [][NextRetry]_vars /\ WF_vars(HttpStep)

(***************************************************************************)
(* SpecAsync: one HttpClient.request call and one AsyncHttpClient.request  *)
(* call with the same max_retries and raise_for_status, whose attempts     *)
(* produce the same outcomes one after the other: the n-th attempt of the  *)
(* call that is behind produces what the n-th attempt of the other did.    *)
(***************************************************************************)
\* the call on the synchronous client
FirstRequest(m, r) ==
    /\ http.pc = "idle"
    /\ HttpRequest(m, r)

\* the same call on the asynchronous client
SameRequest ==
    /\ http.pc # "idle"
    /\ ahttp.pc = "idle"
    /\ AsyncRequest(http.max_retries, http.raise_for_status)

\* What the next attempt of a call with log mine produces, the other call having
\* log other
Follows(a, mine, other) == Len(mine) < Len(other) => a = other[Len(mine) + 1]

SameAttempt(a) ==
    /\ ahttp.pc # "idle"
    /\ Follows(a, http.log, ahttp.log)
    /\ HttpAttempt(a)

SameAsyncAttempt(a) ==
    /\ Follows(a, ahttp.log, http.log)
    /\ AsyncAttempt(a)

NextAsync ==
    \/ \E m \in (-1)..MaxRetries, r \in BOOLEAN : FirstRequest(m, r)
    \/ SameRequest
    \/ \E a \in AttemptOutcomes : SameAttempt(a)
    \/ \E a \in AttemptOutcomes : SameAsyncAttempt(a)
    \/ HttpSleep
    \/ AsyncSleep
    \/ HttpLoopExit
    \/ AsyncLoopExit

SpecAsync == Init /\ [][NextAsync]_vars

(***************************************************************************)
(* SpecShare: expr_match called by one thread that changes the mapping it  *)
(* was returned.  expr_match returns target_list (lines 309, 316, 323),    *)
(* the dict the cached scanner returned, which is the object the lru_cache *)
(* holds for the call's key: a change of the one is a change of the other. *)
(***************************************************************************)
\* What a caller can make of a mapping: add a key, remove a key, change a count
Mutations(d) ==
    {d @@ (<<"z">> :> 1)}
        \cup {[k \in DOMAIN d \ {x} |-> d[k]] : x \in DOMAIN d}
        \cup {[d EXCEPT ![x] = 7] : x \in DOMAIN d}

\* the caller changes the mapping the last expr_match call returned, that call
\* being the kept one or a repetition of it
MutateReturned ==
    LET i == CacheIndex(simple_cache, CallKey(expr, value))
    IN /\ op \in {"expr_match", "caller changes mapping"}
       /\ earlier # NoCall
       /\ earlier.expr = expr
       /\ earlier.value = value
       /\ result.kind = "Match"
       /\ i # 0
       /\ \E d \in Mutations(result.counts) :
            /\ result' = Match(d)
            /\ simple_cache' = [simple_cache EXCEPT ![i].val = d]
       /\ op' = "caller changes mapping"
       /\ UNCHANGED <<expr, value, keywords, simple_out, regex_out, before, earlier, tree,
                      _cache_version, regex_cache, expression_cache, threads, apart>>

NextShare ==
    \/ \E e \in EngineRules, v \in EngineTexts : ExprMatchKept(e, v)
    \/ \E e \in EngineRules, v \in EngineTexts : ExprMatchCall(e, v)
    \/ MutateReturned

SpecShare == Init /\ [][NextShare]_vars

(***************************************************************************)
(* SpecPool: threads calling get_instance, destroy_instance and            *)
(* destroy_all of RedisPoolFactory concurrently.                           *)
(***************************************************************************)
NextPool ==
    \E t \in Threads :
        \/ \E url \in Urls : GetInstanceBegin(t, url)
        \/ GetInstanceCheck(t)
        \/ GetInstanceAcquire(t)
        \/ GetInstanceRecheck(t)
        \/ GetInstanceCreate(t)
        \/ GetInstanceCreateFails(t)
        \/ GetInstanceRelease(t)
        \/ GetInstanceReturn(t)
        \/ \E url \in Urls : DestroyInstanceBegin(t, url)
        \/ DestroyInstanceAcquire(t)
        \/ DestroyInstancePop(t)
        \/ DestroyInstanceDisconnect(t)
        \/ DestroyInstanceRelease(t)
        \/ DestroyAllBegin(t)
        \/ DestroyAllAcquire(t)
        \/ DestroyAllDisconnect(t)
        \/ DestroyAllClear(t)
        \/ DestroyAllRelease(t)

SpecPool == Init /\ [][NextPool]_vars

(***************************************************************************)
(* Properties of expr_match over SpecMatch.                                *)
(***************************************************************************)
Called == result # NotCalled

\* A rule of keywords joined by '+' alone / by '|' alone, without parentheses
IsPureAnd(e) == Contains(e, "+") /\ \A i \in 1..Len(e) : e[i] \notin {"|", "(", ")"}
IsPureOr(e) == Contains(e, "|") /\ \A i \in 1..Len(e) : e[i] \notin {"+", "(", ")"}

\* The verdict of the general path on a rule and a text:
\* _check_match(complex_expression(rule), found set)
GeneralVerdict(e0, v) ==
    LET e == StripWhitespace(e0)
        found == DOMAIN Scan(Lower(v), ExtractKeywords(e))
    IN _check_match(complex_expression(e), found)

\* C1: for every pure-AND or pure-OR rule (no parentheses, one operator kind, empty
\* operands included) and every text, the verdict expr_match reaches through its
\* fast path equals the verdict of the general path.
C1_FastPathEqualsGeneral ==
    (Called /\ (IsPureAnd(expr) \/ IsPureOr(expr)))
        => ((result.kind = "Match") <=> GeneralVerdict(expr, value))

\* An operator with no operand on one of its sides
HasStrayOperator(e) ==
    \E i \in 1..Len(e) :
        /\ e[i] \in {"+", "|"}
        /\ \/ i = 1
           \/ i = Len(e)
           \/ e[i - 1] \in {"+", "|", "("}
           \/ e[i + 1] \in {"+", "|", ")"}

\* C3: a malformed rule with a stray operator that has no operand ('a+', '+a',
\* 'a++b', 'a|', '(a)+') never matches, whatever the text.
C3_StrayOperatorNoMatch ==
    (Called /\ HasStrayOperator(expr)) => result.kind = "False"

\* No keyword of the rule occurs in the (lower-cased) text
Occurs(kw, text) == \E i \in 1..Len(text) : MatchesAt(text, kw, i)
NoKeywordOccurs(e, v) ==
    \A kw \in ExtractKeywords(StripWhitespace(e)) : ~Occurs(Lower(kw), Lower(v))
IsBlank(v) == \A i \in 1..Len(v) : IsSpace(v[i])

\* C4: expr_match returns either False or a non-empty mapping, and returns False
\* whenever the rule yields no keyword, the text is empty or blank, or none of the
\* rule's keywords occurs in the text.
C4_FalseOrNonEmptyMapping ==
    Called =>
        /\ result.kind \in {"False", "Match"}
        /\ result.kind = "Match" => DOMAIN result.counts # {}
        /\ ExtractKeywords(StripWhitespace(expr)) = {} => result = False
        /\ IsBlank(value) => result = False
        /\ NoKeywordOccurs(expr, value) => result = False

\* C4 witness: a rule with keywords met a non-blank text holding none of them.
C4_Witness ==
    /\ Called
    /\ ExtractKeywords(expr) # {}
    /\ ~IsBlank(value)
    /\ NoKeywordOccurs(expr, value)
    /\ result = False

\* '(' + e + ')'
Wrap(e) == <<"(">> \o e \o <<")">>

\* C10: redundant grouping does not change the result: expr_match('(' + e + ')', t)
\* equals expr_match(e, t), also with the parentheses nested twice.
C10_GroupingIdempotent ==
    Called =>
        /\ expr_match(Wrap(expr), value) = result
        /\ expr_match(Wrap(Wrap(expr)), value) = result

\* A rule that is one keyword and nothing else
IsBareKeyword(e) == e # <<>> /\ \A i \in 1..Len(e) : e[i] \notin OpChars

\* The found set of a call: the keys of what the scanner returns for the rule's
\* keywords and the text
FoundSet(e0, v) == DOMAIN Scan(Lower(v), ExtractKeywords(StripWhitespace(e0)))
LoweredKeywords(e0) == {Lower(k) : k \in ExtractKeywords(StripWhitespace(e0))}

\* The call got as far as choosing a path (line 305): the rule has keywords and the
\* scanner found some of them
Dispatched == Called /\ LoweredKeywords(expr) # {} /\ FoundSet(expr, value) # {}

\* C16: a rule that contains a parenthesis (opening or closing), or both '+' and
\* '|', or is a single bare keyword is decided by the full parse-and-evaluate path:
\* it is routed there, and expr_match matches iff _check_match accepts the tree of
\* complex_expression.
C16_FullPathRouting ==
    LET e == StripWhitespace(expr)
    IN (Dispatched /\ (\/ Contains(e, "(") \/ Contains(e, ")")
                       \/ (Contains(e, "+") /\ Contains(e, "|"))
                       \/ IsBareKeyword(e)))
        => /\ Route(e) = "full"
           /\ (result.kind = "Match") <=> GeneralVerdict(expr, value)

\* C17: on the fast paths, a rule with '+' but neither '|' nor '(' matches iff every
\* keyword extracted from it is in the found set, and a rule with '|' but neither
\* '+' nor '(' matches iff at least one extracted keyword is in the found set.
C17_FastPathVerdicts ==
    LET e == StripWhitespace(expr)
    IN (Called /\ LoweredKeywords(expr) # {}) =>
        /\ (Contains(e, "+") /\ ~Contains(e, "|") /\ ~Contains(e, "("))
            => ((result.kind = "Match")
                    <=> LoweredKeywords(expr) \subseteq FoundSet(expr, value))
        /\ (Contains(e, "|") /\ ~Contains(e, "+") /\ ~Contains(e, "("))
            => ((result.kind = "Match")
                    <=> LoweredKeywords(expr) \cap FoundSet(expr, value) # {})

\* C17 witness: a rule of two keywords joined by '+' met a text holding only one of
\* them, and did not match.
C17_Witness ==
    /\ Called
    /\ expr = <<"a", "+", "b">>
    /\ FoundSet(expr, value) = {<<"a">>}
    /\ result = False

(***************************************************************************)
(* Properties of the engine called by one thread.                          *)
(***************************************************************************)
\* The last call was expr_match with the arguments of the kept call
RepeatsKept ==
    /\ op = "expr_match"
    /\ earlier # NoCall
    /\ earlier.expr = expr
    /\ earlier.value = value

\* C5: two expr_match calls with the same rule and text and no invalidate_cache
\* between them return equal results, whatever calls happen in between.
C5_Deterministic == RepeatsKept => result = earlier.result

\* C5 witness: the kept call matched, its cache entry was evicted by later calls,
\* and the same call has been made again.
C5_Witness == RepeatsKept /\ earlier.evicted /\ result.kind = "Match"

\* C6: after invalidate_cache() returns, get_cache_info reports a generation greater
\* by exactly 1 than before the call and size 0 for all three caches.
C6_InvalidateEffect ==
    op = "invalidate_cache" =>
        /\ get_cache_info.version = before.version + 1
        /\ get_cache_info.version > before.version
        /\ get_cache_info.simple_cache = 0
        /\ get_cache_info.regex_cache = 0
        /\ get_cache_info.expression_cache = 0

\* C6 witness: an invalidation that found entries in all three caches.
C6_Witness ==
    /\ op = "invalidate_cache"
    /\ before.simple_cache > 0
    /\ before.regex_cache > 0
    /\ before.expression_cache > 0

(***************************************************************************)
(* Properties of the scanners over SpecScan.                               *)
(***************************************************************************)
\* C2: for every keyword set and text, find_keywords_simple and find_keywords_regex
\* return identical keyword-to-count mappings.
C2_StrategiesAgree ==
    (simple_out # NotCalled /\ regex_out # NotCalled)
        => simple_out.counts = regex_out.counts

(***************************************************************************)
(* Properties of the engine called by several threads.                     *)
(***************************************************************************)
\* The threads inside the with block of invalidate_cache
InCriticalSection ==
    {t \in Threads : pc[t] \in {"inv_load", "inv_store", "inv_clear_simple",
                                "inv_clear_regex", "inv_clear_expression",
                                "inv_release"}}

\* The threads inside the with block that have stored the new version
PastIncrement ==
    {t \in Threads : pc[t] \in {"inv_clear_simple", "inv_clear_regex",
                                "inv_clear_expression", "inv_release"}}

CacheKeys ==
    {simple_cache[i].key : i \in 1..Len(simple_cache)}
        \cup {regex_cache[i].key : i \in 1..Len(regex_cache)}
        \cup {expression_cache[i].key : i \in 1..Len(expression_cache)}

\* C7: with scanner lookups running concurrently with invalidate_cache, once an
\* invalidation has completed (and none is in progress) no cache holds an entry
\* whose key carries a generation older than the current one.
C7_NoStaleEntries ==
    (finished >= 1 /\ InCriticalSection = {})
        => \A k \in CacheKeys : k.ver >= _cache_version

\* C8: invalidate_cache is mutually exclusive with itself, and n invalidations raise
\* the generation by exactly n: no increment is lost.
C8_MutualExclusion ==
    /\ Cardinality(InCriticalSection) <= 1
    /\ _cache_version = finished + Cardinality(PastIncrement)

\* C8 witness: one invalidation has raised the generation and cleared the caches and
\* still holds the lock while another thread's invalidation waits for it.
C8_Witness ==
    \E t \in Threads, u \in Threads :
        /\ pc[t] = "inv_release"
        /\ _cache_lock = t
        /\ pc[u] = "inv_acquire"
        /\ _cache_version = finished + 1

(***************************************************************************)
(* Properties of expr_match over SpecTree.                                 *)
(***************************************************************************)
\* C9: the order of the operands of an AND or OR never changes the outcome: a rule
\* and the same rule with operands permuted agree on match / no match and, when
\* they match, return equal mappings.
C9_OperandOrderIrrelevant ==
    (op = "expr_match" /\ earlier # NoCall) => result = earlier.result

\* C9 witness: a parenthesised rule matched, and so did a rewriting of it with
\* operands exchanged.
C9_Witness ==
    /\ op = "expr_match"
    /\ earlier # NoCall
    /\ earlier.expr # expr
    /\ Contains(expr, "(")
    /\ result.kind = "Match"

(***************************************************************************)
(* Properties of expr_match over SpecCase.                                 *)
(***************************************************************************)
\* C11: matching is case-insensitive: changing the letter case of the rule's
\* keywords or of the text changes neither the verdict nor the returned mapping,
\* and the keys of the mapping are lower-cased keywords of the rule.
C11_CaseInsensitive ==
    (op = "expr_match" /\ earlier # NoCall) =>
        /\ result = earlier.result
        /\ result.kind = "Match" =>
            DOMAIN result.counts \subseteq
                {Lower(k) : k \in ExtractKeywords(StripWhitespace(expr))}

\* C12: when expr_match reports a match, the mapping it returns is exactly the scan
\* of the text for all keywords of the rule: its keys are the lower-cased keywords
\* of the rule that occur in the lower-cased text, each with its occurrence count,
\* which is at least 1, and it has no other key.
C12_MappingIsTheScan ==
    (Called /\ result.kind = "Match") =>
        LET kws == {Lower(k) : k \in ExtractKeywords(StripWhitespace(expr))}
        IN /\ DOMAIN result.counts = {k \in kws : Occurs(k, Lower(value))}
           /\ \A k \in DOMAIN result.counts :
                /\ result.counts[k] = Count(Lower(value), k)
                /\ result.counts[k] >= 1

(***************************************************************************)
(* Properties of expr_match over SpecPrec.                                 *)
(***************************************************************************)
\* C13: without parentheses AND binds tighter than OR: 'x|y+z' matches iff x occurs
\* in the text or both y and z occur, and 'x+y|z' matches iff both x and y occur or
\* z occurs.
C13_AndBindsTighter ==
    Called =>
        \A x \in PrecKeywords, y \in PrecKeywords, z \in PrecKeywords :
            /\ expr = OrThenAnd(x, y, z) =>
                ((result.kind = "Match") <=>
                    (Occurs(x, value) \/ (Occurs(y, value) /\ Occurs(z, value))))
            /\ expr = AndThenOr(x, y, z) =>
                ((result.kind = "Match") <=>
                    ((Occurs(x, value) /\ Occurs(y, value)) \/ Occurs(z, value)))

\* C13 witness: 'a+b|c' matched a text that holds c but not a, and so matched
\* through the OR alone.
C13_Witness ==
    /\ Called
    /\ expr = AndThenOr(<<"a">>, <<"b">>, <<"c">>)
    /\ Occurs(<<"c">>, value)
    /\ ~Occurs(<<"a">>, value)
    /\ result.kind = "Match"

(***************************************************************************)
(* Properties of the caches over SpecFull.                                 *)
(***************************************************************************)
\* A call that turned the cache from c to d, the entry of its key being the most
\* recent one of d: if c was full and the key was not in it, d is c without its
\* least recently used entry and with the new entry as the most recent one.
EvictsOldest(c, d, capacity) ==
    (Len(c) = capacity /\ c # d /\ CacheIndex(c, d[Len(d)].key) = 0)
        => d = Tail(c) \o <<d[Len(d)]>>

\* C14: after any sequence of scanner and parser calls the three caches hold at
\* most 2048, 1024 and 512 entries; an insertion into a full cache evicts the least
\* recently used entry, and the call returns its result as usual.
C14_CapacityAndEviction ==
    [][/\ Len(simple_cache') <= 2048
       /\ Len(regex_cache') <= 1024
       /\ Len(expression_cache') <= 512
       /\ EvictsOldest(simple_cache, simple_cache', SimpleCapacity)
       /\ EvictsOldest(regex_cache, regex_cache', RegexCapacity)
       /\ EvictsOldest(expression_cache, expression_cache', ExpressionCapacity)
       /\ op' = "find_keywords_simple" =>
            simple_out' = Dict(ScanSimple(Lower(value'), SortedTuple(keywords')))
       /\ op' = "find_keywords_regex" =>
            regex_out' = Dict(ScanRegex(Lower(value'), SortedTuple(keywords')))]_vars

\* C14 witness: all three caches are full and each has evicted an entry of the
\* earlier calls.
C14_Witness ==
    /\ Len(simple_cache) = SimpleCapacity
    /\ Len(regex_cache) = RegexCapacity
    /\ Len(expression_cache) = ExpressionCapacity
    /\ \E n \in 1..3 : CacheIndex(simple_cache, SimpleFiller(n).key) = 0
    /\ \E n \in 1..3 : CacheIndex(regex_cache, RegexFiller(n).key) = 0
    /\ \E n \in 1..3 : CacheIndex(expression_cache, ExpressionFiller(n).key) = 0

(***************************************************************************)
(* Properties of HttpClient.request over SpecHttp.                         *)
(***************************************************************************)
\* C15: request retries a failed attempt: after an httpx.RequestError or an
\* HTTPStatusError other than 304 it sleeps and tries again, until an attempt
\* succeeds or max_retries retries have been made; so a call that ends with an
\* exception ends with the last of these errors, after max_retries + 1 attempts and
\* max_retries sleeps.
C15_RetriesFailedRequests ==
    (http.pc = "done" /\ http.outcome # "response") =>
        /\ http.outcome \in {"RequestError", "HTTPStatusError"}
        /\ Len(http.log) = http.max_retries + 1
        /\ http.sleeps = http.max_retries

(***************************************************************************)
(* Properties of the parsers and of the parsed-expression cache.           *)
(***************************************************************************)
\* C18: on the full path expr_match obtains the tree through the parsed-expression
\* cache, keyed by (expression, generation): once a rule has been matched on the
\* full path the cache holds an entry for it in the current generation (so that a
\* second match is a hit and does not parse again).
C18_ParsedExpressionCached ==
    (op = "expr_match" /\ Dispatched /\ Route(StripWhitespace(expr)) = "full") =>
        \E i \in 1..Len(expression_cache) :
            /\ expression_cache[i].key.expression \in {expr, StripWhitespace(expr)}
            /\ expression_cache[i].key.ver = _cache_version

\* A well-formed rule: keywords joined by '+' and '|', with balanced parentheses
\* around well-formed rules
Balance(e, n) ==
    Cardinality({i \in 1..n : e[i] = "("}) - Cardinality({i \in 1..n : e[i] = ")"})
WellFormed(e) ==
    /\ e # <<>>
    /\ e[1] \notin {"+", "|", ")"}
    /\ e[Len(e)] \notin {"+", "|", "("}
    /\ \A i \in 1..(Len(e) - 1) :
        /\ e[i] \in {"+", "|", "("} => e[i + 1] \notin {"+", "|", ")"}
        /\ e[i] = ")" => e[i + 1] \in {"+", "|", ")"}
        /\ e[i + 1] = "(" => e[i] \in {"+", "|", "("}
    /\ \A n \in 1..Len(e) : Balance(e, n) >= 0
    /\ Balance(e, Len(e)) = 0

\* C19: the two parsers implement the same grammar: for every well-formed rule the
\* tree of the table-driven parser (what _complex_expression_cached returns) and the
\* tree of complex_expression give the same verdict for every found set.
C19_ParsersAgree ==
    (expression_cache # <<>> /\ WellFormed(expr)) =>
        \A found \in SUBSET LoweredKeywords(expr) :
            _check_match(expression_cache[1].val, found)
                <=> _check_match(complex_expression(expr), found)

\* The words of the literals of a tree of complex_expression
RECURSIVE LiteralsOf(_)
LiteralsOf(node) ==
    IF node.op = "LIT" THEN {node.word}
    ELSE UNION {LiteralsOf(node.items[n]) : n \in 1..Len(node.items)}

\* C20: every literal of a tree built by complex_expression is a keyword of one or
\* more characters, none of them '(', ')', '+', '|' or whitespace; the parser never
\* produces an empty literal.
C20_LiteralsAreKeywords ==
    (Dispatched /\ Route(StripWhitespace(expr)) = "full") =>
        \A w \in LiteralsOf(complex_expression(StripWhitespace(expr))) :
            /\ w # <<>>
            /\ \A i \in 1..Len(w) : w[i] \notin OpChars /\ ~IsSpace(w[i])

(***************************************************************************)
(* Properties of the trees complex_expression builds.                      *)
(***************************************************************************)
\* expr_match has run complex_expression on the rule of the last call
Parsed == Dispatched /\ Route(StripWhitespace(expr)) = "full"

\* Every AND / OR node of a tree has two items or more
RECURSIVE NoSingleton(_)
NoSingleton(node) ==
    node.op = "LIT"
        \/ /\ Len(node.items) >= 2
           /\ \A n \in 1..Len(node.items) : NoSingleton(node.items[n])

\* C21: every AND or OR node that complex_expression builds has at least 2 items (a
\* production with a single item returns the item itself), and a parenthesised
\* group returns the node of what it encloses, without a wrapper node.
C21_NoSingletonNodes ==
    LET e == StripWhitespace(expr)
    IN Parsed =>
        /\ NoSingleton(complex_expression(e))
        /\ \A i \in 1..Len(e) :
            e[i] = "(" => parse_term(e, i).node = parse_or_expr(e, i + 1).node

\* C21 witness: the rule '(a)' was parsed to the keyword a itself, and a rule with
\* a group and an operator to a node of two items.
C21_Witness ==
    /\ Parsed
    /\ Contains(expr, "(")
    /\ \/ /\ expr = <<"(", "a", ")">>
          /\ complex_expression(expr) = Literal(<<"a">>)
       \/ /\ complex_expression(expr).op \in {"AND", "OR"}
          /\ Len(complex_expression(expr).items) = 2

\* The '(' at position i of e has no ')' of its own
Unclosed(e, i) ==
    /\ e[i] = "("
    /\ \A j \in i..Len(e) : Balance(e, j) - Balance(e, i - 1) >= 1

\* The parser gets to position i of e and finds a '(' there to open a group with:
\* up to i there is no ')', and every '(' follows the start, an operator or a '('
Entered(e, i) ==
    /\ \A j \in 1..i : e[j] # ")"
    /\ \A j \in 1..i : e[j] = "(" => (j = 1 \/ e[j - 1] \in {"+", "|", "("})

\* Where the scan of the group opened at position i stops
GroupEnd(e, i) == parse_or_expr(e, i + 1).pos

\* A rule whose only defect is that its final ')' is missing
MissingFinalParen(e) == ~WellFormed(e) /\ WellFormed(Append(e, ")"))

C22_NeverRaises ==
    (Called /\ \E i \in 1..Len(expr) : Unclosed(expr, i))
        => result.kind \in {"False", "Match"}

C22_GroupEnds ==
    Parsed =>
        \A i \in 1..Len(expr) :
            (Unclosed(expr, i) /\ Entered(expr, i))
                => \/ GroupEnd(expr, i) = Len(expr) + 1
                   \/ expr[GroupEnd(expr, i)] = ")"

C22_SameAsClosed ==
    (Called /\ MissingFinalParen(expr)) =>
        /\ complex_expression(expr) = complex_expression(Append(expr, ")"))
        /\ result = expr_match(Append(expr, ")"), value)

\* C22: an unterminated '(' is tolerated: complex_expression does not raise on it,
\* the group ends at the end of input or at the next unmatched ')', and a rule whose
\* only defect is a missing final ')' yields the same tree and the same expr_match
\* result as the rule with that ')' supplied.
C22_UnterminatedTolerated ==
    /\ C22_NeverRaises
    /\ C22_GroupEnds
    /\ C22_SameAsClosed

(***************************************************************************)
(* Properties of the evaluator.                                            *)
(***************************************************************************)
\* The boolean value of a tree under a found set: a literal is true iff its
\* lower-cased word is found, an AND iff all its items are true, an OR iff one is
RECURSIVE Evaluate(_, _)
Evaluate(node, found) ==
    CASE node.op = "LIT" -> Lower(node.word) \in found
      [] node.op = "AND" -> \A n \in 1..Len(node.items) : Evaluate(node.items[n], found)
      [] node.op = "OR" -> \E n \in 1..Len(node.items) : Evaluate(node.items[n], found)

\* C23: _check_match equals the boolean evaluation of the tree: on the tree of the
\* rule it agrees with Evaluate for every set of found keywords, at every nesting
\* depth; and the found set it was given is unchanged afterwards: a match returns
\* the scanner's mapping, whose keys are that set.
C23_CheckMatchIsEvaluation ==
    Parsed =>
        /\ \A found \in SUBSET LoweredKeywords(expr) :
            _check_match(complex_expression(StripWhitespace(expr)), found)
                <=> Evaluate(complex_expression(StripWhitespace(expr)), found)
        /\ (result.kind = "Match")
                <=> Evaluate(complex_expression(StripWhitespace(expr)),
                             FoundSet(expr, value))
        /\ result.kind = "Match" => DOMAIN result.counts = FoundSet(expr, value)

\* C23 witness: a tree with an AND node inside an OR node was evaluated, the AND
\* node was true, and the rule matched.
C23_Witness ==
    LET parsed == complex_expression(StripWhitespace(expr))
    IN /\ Parsed
       /\ parsed.op = "OR"
       /\ parsed.items[1].op = "AND"
       /\ Evaluate(parsed.items[1], FoundSet(expr, value))
       /\ result.kind = "Match"

(***************************************************************************)
(* Properties of find_keywords_simple over SpecCount.                      *)
(***************************************************************************)
\* The positions at which kw occurs in text as a raw substring
Occurrences(text, kw) == {i \in 1..Len(text) : MatchesAt(text, kw, i)}

\* The number of non-overlapping occurrences of kw in text, counted from the left:
\* the size of the set of occurrences that holds the first one and then always the
\* first one that starts after the end of the one before
Disjoint(text, kw) ==
    CHOOSE S \in SUBSET Occurrences(text, kw) :
        \A i \in Occurrences(text, kw) :
            i \in S <=> \A j \in S : j < i => j + Len(kw) <= i

\* C24: find_keywords_simple returns, for every keyword of the set, the number of
\* its non-overlapping raw substring occurrences in the lower-cased text (no word
\* boundary is looked at), and the mapping holds exactly the keywords, lower-cased,
\* whose count is greater than 0.
C24_SimpleScanCounts ==
    simple_out # NotCalled =>
        LET lowered == {Lower(k) : k \in keywords}
        IN /\ DOMAIN simple_out.counts = {k \in lowered : Occurs(k, Lower(value))}
           /\ \A k \in DOMAIN simple_out.counts :
                /\ simple_out.counts[k] = Cardinality(Disjoint(Lower(value), k))
                /\ simple_out.counts[k] > 0

\* C24 witness: 'aa' was counted once in 'aaa', where it starts at two positions,
\* and a keyword that does not occur was left out.
C24_Witness ==
    /\ simple_out # NotCalled
    /\ value = <<"a", "a", "a">>
    /\ keywords = {<<"a", "a">>, <<"b">>}
    /\ simple_out.counts = (<<"a", "a">> :> 1)

(***************************************************************************)
(* Properties of the generation counter over SpecConc.                     *)
(***************************************************************************)
\* The cache key of the lookup thread t is making
LookupKey(t) == ScanKey(local[t].text, local[t].keywords, local[t].ver)

\* The entry a lookup of thread t in cache c returns: it is stored under the
\* arguments of the call, the generation thread t read among them
ReturnsOwnGeneration(t, c) ==
    /\ CacheIndex(c, LookupKey(t)) # 0
    /\ c[CacheIndex(c, LookupKey(t))].key.ver = local[t].ver

\* C25: the generation counter never decreases and changes only in
\* invalidate_cache (its statement _cache_version += 1); a lookup reads the current
\* generation, which is at least the number of invalidations completed before it
\* started, and every entry it stores or returns carries the generation it read: it
\* never returns a value computed under an earlier generation.
C25_GenerationInKeys ==
    [][/\ _cache_version' >= _cache_version
       /\ _cache_version' # _cache_version =>
            \E t \in Threads : pc[t] = "inv_store" /\ pc'[t] = "inv_clear_simple"
       /\ \A t \in Threads :
            /\ (pc[t] = "idle" /\ pc'[t] \in {"simple_lookup", "regex_lookup"}) =>
                /\ local'[t].ver = _cache_version
                /\ local'[t].ver >= finished
            /\ (pc[t] = "simple_lookup" /\ pc'[t] = "idle") =>
                ReturnsOwnGeneration(t, simple_cache)
            /\ (pc[t] = "regex_lookup" /\ pc'[t] = "idle") =>
                ReturnsOwnGeneration(t, regex_cache)
            /\ (pc[t] = "simple_store" /\ pc'[t] = "idle") =>
                \E i \in 1..Len(simple_cache') :
                    /\ simple_cache'[i].key = LookupKey(t)
                    /\ simple_cache'[i].key.ver = local[t].ver
            /\ (pc[t] = "regex_store" /\ pc'[t] = "idle") =>
                \E i \in 1..Len(regex_cache') :
                    /\ regex_cache'[i].key = LookupKey(t)
                    /\ regex_cache'[i].key.ver = local[t].ver]_vars

\* C25 witness: after an invalidation has completed a lookup has read the new
\* generation, while the cache holds an entry for the same text and keywords that
\* was stored under an earlier generation.
C25_Witness ==
    \E t \in Threads :
        /\ pc[t] = "simple_lookup"
        /\ finished >= 1
        /\ local[t].ver = _cache_version
        /\ \E i \in 1..Len(simple_cache) :
            /\ simple_cache[i].key.text = local[t].text
            /\ simple_cache[i].key.keywords = local[t].keywords
            /\ simple_cache[i].key.ver < local[t].ver

(***************************************************************************)
(* Properties of HttpClient.request over SpecRetry.                        *)
(***************************************************************************)
\* The call made at most max_retries + 1 attempts and, if it has ended, it returned
\* a response or raised
C26_AttemptsBounded ==
    http.max_retries >= 0 =>
        /\ Len(http.log) <= http.max_retries + 1
        /\ http.pc = "done" =>
            \/ http.outcome = "response" /\ http.status \in Statuses
            \/ http.outcome \in {"HTTPStatusError", "AttributeError", "RequestError"}

\* C26: for max_retries >= 0, request terminates after at most max_retries + 1
\* calls to client.request, and on every path it returns a response or raises: it
\* never leaves the retry loop returning None.
C26_RequestTerminates ==
    /\ []C26_AttemptsBounded
    /\ (http.pc \in {"attempt", "sleep"} /\ http.max_retries >= 0) ~> (http.pc = "done")

\* C26 witness: a call with max_retries > 0 has ended by raising after every one of
\* its max_retries + 1 attempts failed.
C26_Witness ==
    /\ http.pc = "done"
    /\ http.max_retries > 0
    /\ http.outcome = "HTTPStatusError"
    /\ Len(http.log) = http.max_retries + 1
    /\ http.sleeps = http.max_retries

C28_WholeRuleParsed ==
    LET e == StripWhitespace(expr)
    IN Parsed =>
        /\ parse_or_expr(StripBlanks(e), 1).pos = Len(StripBlanks(e)) + 1
        /\ ExtractKeywords(e) \subseteq LiteralsOf(complex_expression(e))

(***************************************************************************)
(* Properties of expr_match over SpecShare.                                *)
(***************************************************************************)
\* C29: the mapping expr_match returns is not shared with the scanner caches:
\* whatever callers have done to the mappings they were returned, a later
\* expr_match call with the same rule and text in the same generation returns what
\* the first one returned, which is what expr_match computes for that rule and text.
C29_MappingNotShared ==
    RepeatsKept =>
        /\ result = earlier.result
        /\ result = expr_match(expr, value)

(***************************************************************************)
(* Properties of RedisPoolFactory over SpecPool.                           *)
(***************************************************************************)
\* The pools made for a url that no destruction has taken out of _instances
LivePools(url) ==
    {p \in 1..Len(factory.made) : factory.made[p] = url /\ p \notin factory.removed}

\* The threads whose last get_instance call returned a pool
Returned == {t \in Threads : factory.at[t] = "idle" /\ factory.my[t].ret # 0}

C30_OnePoolPerUrl == \A url \in Urls : Cardinality(LivePools(url)) <= 1

C30_SamePool ==
    \A t \in Returned :
        factory.my[t].ret \notin factory.removed
            => factory.my[t].ret = factory._instances[factory.my[t].url]

C30_NotDisconnectedBefore ==
    \A t \in Returned : factory.my[t].ret \notin factory.my[t].began

\* C30: with any interleaving of concurrent get_instance(url), destroy_instance(url)
\* and destroy_all calls, at most one pool is made per url between two destructions
\* of that url, every get_instance(url) in that interval returns that same pool,
\* and get_instance never returns a pool that was disconnected before the call
\* began.
C30_PoolPerUrl ==
    /\ C30_OnePoolPerUrl
    /\ C30_SamePool
    /\ C30_NotDisconnectedBefore

====
